---- MODULE Spec2Model ----
(***************************************************************************)
(* Artwork-information pipeline of apps/core/services/usecases:            *)
(*   BasicArtworkExtractor -> WebSearchEnricher -> ContentFetchEnricher    *)
(*   -> VideoScriptGenerator, sequenced by ArtworkInfoOrchestrator.        *)
(*                                                                         *)
(* Text is a sequence of characters.  An ASCII character is the one-letter *)
(* string; a Hangul syllable is the string "k_" followed by its revised    *)
(* romanisation ("k_jak", "k_pum", ...), because the module is      *)
(* ASCII.  Python's None is the empty tuple <<>> where a value is optional *)
(* (Some(v) is <<v>>).                                                     *)
(***************************************************************************)
EXTENDS Integers, Sequences, FiniteSets, TLC

(***************************************************************************)
(* Python str primitives used by the services.                             *)
(***************************************************************************)
Whitespace == {" ", "\n", "\t"}

Digits == {"0", "1", "2", "3", "4", "5", "6", "7", "8", "9"}

NonWordChars == Whitespace \cup {".", "!", "?", "-", ",", "'", ":", "(", ")", "/"}

UpperCase == <<"A", "B", "C", "D", "E", "F", "G", "H", "I", "J", "K", "L", "M",
               "N", "O", "P", "Q", "R", "S", "T", "U", "V", "W", "X", "Y", "Z">>

LowerCase == <<"a", "b", "c", "d", "e", "f", "g", "h", "i", "j", "k", "l", "m",
               "n", "o", "p", "q", "r", "s", "t", "u", "v", "w", "x", "y", "z">>

None == <<>>

Some(v) == <<v>>

RECURSIVE lstrip(_)
lstrip(s) == IF s = <<>> THEN <<>>
             ELSE IF Head(s) \in Whitespace THEN lstrip(Tail(s)) ELSE s

RECURSIVE rstrip(_)
rstrip(s) == IF s = <<>> THEN <<>>
             ELSE IF s[Len(s)] \in Whitespace THEN rstrip(SubSeq(s, 1, Len(s) - 1)) ELSE s

strip(s) == rstrip(lstrip(s))

lower_char(c) == IF \E i \in 1..Len(UpperCase) : UpperCase[i] = c
                 THEN LowerCase[CHOOSE i \in 1..Len(UpperCase) : UpperCase[i] = c]
                 ELSE c

lower(s) == [i \in 1..Len(s) |-> lower_char(s[i])]

isdigit(s) == s /= <<>> /\ \A i \in 1..Len(s) : s[i] \in Digits

contains(s, sub) == \E i \in 1..(Len(s) - Len(sub) + 1) : SubSeq(s, i, i + Len(sub) - 1) = sub

char_at(s, i) == IF i \in 1..Len(s) THEN s[i] ELSE ""

RECURSIVE split_lines(_)
split_lines(s) ==
    IF \A i \in 1..Len(s) : s[i] /= "\n" THEN <<s>>
    ELSE LET p == CHOOSE i \in 1..Len(s) : s[i] = "\n" /\ \A j \in 1..(i - 1) : s[j] /= "\n"
         IN <<SubSeq(s, 1, p - 1)>> \o split_lines(SubSeq(s, p + 1, Len(s)))

RECURSIVE repeat(_, _)
repeat(c, n) == IF n = 0 THEN <<>> ELSE <<c>> \o repeat(c, n - 1)

Min(S) == CHOOSE x \in S : \A y \in S : x <= y

(***************************************************************************)
(* BasicArtworkExtractor: sentinels and the title predicate.               *)
(***************************************************************************)
\* default_values["title"]: jakpummyeong hwakin bulga
DefaultTitle == <<"k_jak", "k_pum", "k_myeong", " ", "k_hwak", "k_in", " ", "k_bul", "k_ga">>

\* default_values["artist"]: jakga jeongbo eopseum
DefaultArtist == <<"k_jak", "k_ga", " ", "k_jeong", "k_bo", " ", "k_eops", "k_eum">>

\* default_values["year"]: jejakyeondo misang
DefaultYear == <<"k_je", "k_jak", "k_yeon", "k_do", " ", "k_mi", "k_sang">>

\* default_values["description"]: jakpum seolmyeong eopseum
DefaultDescription == <<"k_jak", "k_pum", " ", "k_seol", "k_myeong", " ", "k_eops", "k_eum">>

default_values == [title |-> DefaultTitle, artist |-> DefaultArtist,
                   year |-> DefaultYear, description |-> DefaultDescription]

FieldNames == <<"title", "artist", "year", "description">>

\* the twelve meaningless titles of _is_invalid_title, in source order
invalid_titles == {
    <<"k_jeong", "k_bo", " ", "k_eops", "k_eum">>,
    <<"k_jeong", "k_bo", "k_eops", "k_eum">>,
    <<"k_bul", "k_myeong">>,
    <<"k_mi", "k_sang">>,
    <<"k_je", "k_mok", "k_eops", "k_eum">>,
    <<"k_mu", "k_je">>,
    <<"?", "?", "?">>,
    <<"-", "-", "-">>,
    <<"u", "n", "k", "n", "o", "w", "n">>,
    <<"k_eops", "k_eum">>,
    <<"k_hwak", "k_in", "k_bul", "k_ga">>,
    <<"k_bul", "k_bun", "k_myeong">> }

is_invalid_title_no_digit_check(title) ==
    IF title = <<>> \/ strip(title) = <<>> THEN TRUE
    ELSE IF title = default_values.title THEN TRUE
    ELSE IF lower(strip(title)) \in {lower(t) : t \in invalid_titles} THEN TRUE
    ELSE IF Len(strip(title)) < 2 THEN TRUE
    ELSE FALSE

is_invalid_title(title) ==
    IF title = <<>> \/ strip(title) = <<>> THEN TRUE
    ELSE IF title = default_values.title THEN TRUE
    ELSE IF lower(strip(title)) \in {lower(t) : t \in invalid_titles} THEN TRUE
    ELSE IF Len(strip(title)) < 2 THEN TRUE
    ELSE IF isdigit(strip(title)) THEN TRUE
    ELSE FALSE

(***************************************************************************)
(* The text of an AI reply.  fence is the code-fence marker the reply      *)
(* carries ("json": ```json, "bare": ```, "none"), closed tells whether a  *)
(* closing ``` follows the opening one, and body is what lies inside:      *)
(* prose (kind "prose", its characters in s), JSON that is no object (kind *)
(* "other": an array, a number, a string, null) or a JSON object (kind     *)
(* "object") whose members are JSON values: t = "missing" (no such key),   *)
(* "null", "num" (a non-zero number) or "str" (the string s).              *)
(***************************************************************************)
JMissing == [t |-> "missing", s |-> <<>>]

JNull == [t |-> "null", s |-> <<>>]

JNum == [t |-> "num", s |-> <<>>]

JStr(s) == [t |-> "str", s |-> s]

JObject(title, artist, year, description) ==
    [kind |-> "object", s |-> <<>>, title |-> title, artist |-> artist,
     year |-> year, description |-> description]

JOther == [kind |-> "other", s |-> <<>>, title |-> JMissing, artist |-> JMissing,
           year |-> JMissing, description |-> JMissing]

Prose(s) == [kind |-> "prose", s |-> s, title |-> JMissing, artist |-> JMissing,
             year |-> JMissing, description |-> JMissing]

Reply(fence, closed, body) == [fence |-> fence, closed |-> closed, body |-> body]

\* bool(raw_response): the reply holds at least one character
reply_truthy(r) == r.fence /= "none" \/ r.body.kind /= "prose" \/ r.body.s /= <<>>

(***************************************************************************)
(* GeminiService.generate_content.  outcome.kind is what the Vertex model  *)
(* did: "text" (a candidate with outcome.text), "no_candidates", or        *)
(* "model_raise" (model.generate_content raised); "service_raise" is a     *)
(* gemini_service passed to a constructor whose generate_content itself    *)
(* raises.  The result is the returned Optional[str] and whether the call  *)
(* raised.                                                                 *)
(***************************************************************************)
strip_reply(r) == IF r.fence = "none" /\ r.body.kind = "prose"
                  THEN Reply(r.fence, r.closed, Prose(strip(r.body.s)))
                  ELSE r

generate_content(outcome) ==
    IF outcome.kind = "service_raise" THEN [raised |-> TRUE, value |-> None]
    ELSE IF outcome.kind = "text" THEN [raised |-> FALSE, value |-> Some(strip_reply(outcome.text))]
    ELSE [raised |-> FALSE, value |-> None]

(***************************************************************************)
(* BasicArtworkExtractor._parse_gemini_response                            *)
(***************************************************************************)
\* null | eopseum | misang | bulmyeong
ParseSentinels == { <<"n", "u", "l", "l">>, <<"k_eops", "k_eum">>,
                    <<"k_mi", "k_sang">>, <<"k_bul", "k_myeong">> }

\* One pass of the loop over the four fields: <<>> when .strip() raises on a
\* value that is no string, else the cleaned value.
parse_field(v, field) ==
    IF v.t \in {"missing", "null"} THEN Some(default_values[field])
    ELSE IF v.t = "num" THEN None
    ELSE IF v.s = <<>> \/ strip(v.s) = <<>> THEN Some(default_values[field])
    ELSE IF lower(strip(v.s)) \in ParseSentinels THEN Some(default_values[field])
    ELSE Some(strip(v.s))

\* json.loads(json_text) yields a dict: an unclosed fence makes
\* response_text[start:-1] drop the reply's last character.
json_text_is_object(r) == (r.fence = "none" \/ r.closed) /\ r.body.kind = "object"

parse_gemini_response(r) ==
    IF ~json_text_is_object(r) THEN None
    ELSE LET f == [i \in 1..4 |-> parse_field(r.body[FieldNames[i]], FieldNames[i])]
         IN IF \E i \in 1..4 : f[i] = None THEN None
            ELSE Some([title |-> f[1][1], artist |-> f[2][1],
                       year |-> f[3][1], description |-> f[4][1]])

(***************************************************************************)
(* BasicArtworkExtractor._create_fallback_result                           *)
(***************************************************************************)
is_word(s, i) == i \in 1..Len(s) /\ s[i] \notin NonWordChars

\* \b at the position between s[p] and s[p+1]
word_boundary(s, p) == is_word(s, p) /= is_word(s, p + 1)

digits_at(s, i, n) == i + n - 1 <= Len(s) /\ \A j \in i..(i + n - 1) : s[j] \in Digits

\* The end of the match of year_pattern that starts at s[i], 0 when there is
\* none: \b(\d{4}(?:-\d{4})?nyeon?|\d{1,2}segi)\b, alternatives and greedy
\* quantifiers tried in the regex engine's order.
year_match_end(s, i) ==
    LET d4 == digits_at(s, i, 4)
        e0 == i + 3
        rng == d4 /\ char_at(s, e0 + 1) = "-" /\ digits_at(s, e0 + 2, 4)
        e1 == e0 + 5
        nyeon(e) == char_at(s, e + 1) = "k_nyeon"
        segi(e) == char_at(s, e + 1) = "k_se" /\ char_at(s, e + 2) = "k_gi"
        cands == (IF rng /\ nyeon(e1) THEN <<e1 + 1>> ELSE <<>>)
              \o (IF rng THEN <<e1>> ELSE <<>>)
              \o (IF d4 /\ nyeon(e0) THEN <<e0 + 1>> ELSE <<>>)
              \o (IF d4 THEN <<e0>> ELSE <<>>)
              \o (IF digits_at(s, i, 2) /\ segi(i + 1) THEN <<i + 3>> ELSE <<>>)
              \o (IF digits_at(s, i, 1) /\ segi(i) THEN <<i + 2>> ELSE <<>>)
        ok == SelectSeq(cands, LAMBDA e : word_boundary(s, e))
    IN IF word_boundary(s, i - 1) /\ ok /= <<>> THEN ok[1] ELSE 0

\* re.search(year_pattern, line): the leftmost match, None when there is none
year_search(line) ==
    LET starts == {i \in 1..Len(line) : year_match_end(line, i) > 0}
    IN IF starts = {} THEN None
       ELSE Some(SubSeq(line, Min(starts), year_match_end(line, Min(starts))))

MaxTitleLineLen == 50

MinDescriptionLineLen == 30

\* lines = [line.strip() for line in ocr_text.split('\n') if line.strip()]
ocr_lines(ocr_text) ==
    LET raw == split_lines(ocr_text)
        kept == SelectSeq(raw, LAMBDA l : strip(l) /= <<>>)
    IN [i \in 1..Len(kept) |-> strip(kept[i])]

looks_like_description(line) ==
    /\ Len(line) > MinDescriptionLineLen
    /\ \/ contains(line, <<"k_da", ".">>)
       \/ contains(line, <<"k_i", "k_da">>)
       \/ contains(line, <<"k_doen", "k_da">>)

\* the rules of _create_fallback_result over the stripped non-empty lines
fallback_from_lines(lines, error_reason) ==
    LET fallback_title ==
            IF lines /= <<>> /\ Len(lines[1]) <= MaxTitleLineLen
               /\ \A i \in 1..Len(lines[1]) : lines[1][i] \notin {".", "!", "?"}
            THEN lines[1] ELSE default_values.title
        with_year == {i \in 1..Len(lines) : year_search(lines[i]) /= None}
        fallback_year ==
            IF with_year = {} THEN default_values.year
            ELSE year_search(lines[Min(with_year)])[1]
        with_desc == {i \in 1..Len(lines) : looks_like_description(lines[i])}
        fallback_description ==
            IF with_desc = {} THEN default_values.description
            ELSE lines[Min(with_desc)]
    IN [basic_info |-> [title |-> fallback_title, artist |-> default_values.artist,
                        year |-> fallback_year, description |-> fallback_description],
        metadata |-> [confidence |-> 30, extraction_method |-> "fallback_rules",
                      error_reason |-> error_reason, success |-> FALSE]]

create_fallback_result(ocr_text, error_reason) ==
    fallback_from_lines(ocr_lines(ocr_text), error_reason)

(***************************************************************************)
(* BasicArtworkExtractor.extract_basic_info.  The result names the         *)
(* exception that leaves the method ("None" when it returns), the returned *)
(* pair and the number of generate_content calls issued.                   *)
(***************************************************************************)
ExtractRaise(exception, ai_calls) ==
    [raised |-> exception, basic_info |-> None, metadata |-> None, ai_calls |-> ai_calls]

ExtractReturn(basic_info, metadata, ai_calls) ==
    [raised |-> "None", basic_info |-> Some(basic_info), metadata |-> Some(metadata),
     ai_calls |-> ai_calls]

is_blank_ocr_no_strip(ocr_text) == ocr_text = <<>>

\* not ocr_text or not ocr_text.strip()
is_blank_ocr(ocr_text) == ocr_text = <<>> \/ strip(ocr_text) = <<>>

\* a fallback result, behind the title gate that follows it
title_gate(fb, ai_calls) ==
    IF is_invalid_title(fb.basic_info.title)
    THEN ExtractRaise("ArtworkTitleNotFoundError", ai_calls)
    ELSE ExtractReturn(fb.basic_info, fb.metadata, ai_calls)

validated_fallback(ocr_text, error_reason, ai_calls) ==
    title_gate(create_fallback_result(ocr_text, error_reason), ai_calls)

on_gemini_error_reraise(ocr_text, ai_calls) == ExtractRaise("Exception", ai_calls)

\* except Exception as e: the fallback after an error of the AI call
on_gemini_error(ocr_text, ai_calls) == validated_fallback(ocr_text, "gemini_error", ai_calls)

\* the branches after the generate_content call: g its outcome, extracted_data
\* what _parse_gemini_response made of a truthy reply
extract_after_call(ocr_text, g, extracted_data) ==
    IF g.raised THEN on_gemini_error(ocr_text, 1)
    ELSE IF extracted_data /= None
    THEN IF is_invalid_title(extracted_data[1].title)
         THEN ExtractRaise("ArtworkTitleNotFoundError", 1)
         ELSE ExtractReturn(extracted_data[1],
                            [confidence |-> 90, extraction_method |-> "gemini_ai_success",
                             error_reason |-> "", success |-> TRUE], 1)
    ELSE validated_fallback(ocr_text, "gemini_response_failed", 1)

parse_if_truthy(g) ==
    IF g.value /= None /\ reply_truthy(g.value[1]) THEN parse_gemini_response(g.value[1]) ELSE None

extract_with(ocr_text, g) == extract_after_call(ocr_text, g, parse_if_truthy(g))

extract_basic_info(ocr_text, ai) ==
    IF is_blank_ocr(ocr_text) THEN ExtractRaise("ArtworkTitleNotFoundError", 0)
    ELSE extract_with(ocr_text, generate_content(ai))

(***************************************************************************)
(* FetchService.  A URL is text; the remote end of one fetch is a script:  *)
(* the outcome the fetch MCP server would give to the first, the second,   *)
(* ... attempt on that URL.  An outcome's kind is what session.call_tool   *)
(* did: "content_dict" / "content_obj" (a title and a text),               *)
(* "content_list" (text items, no title), "content_none" (no usable        *)
(* content), "tool_error" (call_tool raised: the server rejected the       *)
(* request) or "conn_error" (opening the session raised: connection reset  *)
(* or timeout).                                                            *)
(***************************************************************************)
startswith(s, prefix) == Len(s) >= Len(prefix) /\ SubSeq(s, 1, Len(prefix)) = prefix

HttpPrefix == <<"h", "t", "t", "p", ":", "/", "/">>

HttpsPrefix == <<"h", "t", "t", "p", "s", ":", "/", "/">>

\* urlparse(url).netloc: what follows "scheme://" up to the next "/"
netloc(url) ==
    LET rest == IF startswith(url, HttpsPrefix) THEN SubSeq(url, Len(HttpsPrefix) + 1, Len(url))
                ELSE IF startswith(url, HttpPrefix) THEN SubSeq(url, Len(HttpPrefix) + 1, Len(url))
                ELSE <<>>
        cut == {i \in 1..Len(rest) : rest[i] = "/"}
    IN IF cut = {} THEN rest ELSE SubSeq(rest, 1, Min(cut) - 1)

\* urlparse(url).scheme is non-empty
has_scheme(url) == startswith(url, HttpPrefix) \/ startswith(url, HttpsPrefix)

normalize_url(url) ==
    IF url = <<>> THEN None
    ELSE LET u == IF has_scheme(url) THEN url ELSE HttpsPrefix \o url
         IN IF netloc(u) /= <<>> /\ has_scheme(u) THEN Some(u) ELSE None

is_valid_url(url) == netloc(url) /= <<>> /\ has_scheme(url)

RECURSIVE filter_urls_from(_, _)
filter_urls_from(urls, valid_urls) ==
    IF urls = <<>> THEN valid_urls
    ELSE LET url == Head(urls)
             n == IF url = <<>> \/ strip(url) = <<>> THEN None ELSE normalize_url(strip(url))
             keep == /\ n /= None
                     /\ \A i \in 1..Len(valid_urls) : valid_urls[i] /= n[1]
                     /\ is_valid_url(n[1])
         IN filter_urls_from(Tail(urls), IF keep THEN Append(valid_urls, n[1]) ELSE valid_urls)

filter_urls(urls) == filter_urls_from(urls, <<>>)

FailedFetch(url, error) ==
    [url |-> url, success |-> FALSE, title |-> <<>>, content |-> <<>>, error |-> error]

\* the dict fetch_url_mcp_async returns for the outcome o of call_tool
fetch_txt_result(url, o) ==
    IF o.kind \in {"content_dict", "content_obj"}
    THEN [url |-> url, success |-> TRUE, title |-> o.title, content |-> o.text, error |-> ""]
    ELSE IF o.kind = "content_list"
    THEN [url |-> url, success |-> TRUE, title |-> <<>>, content |-> o.text, error |-> ""]
    ELSE IF o.kind = "content_none" THEN FailedFetch(url, "parse_failed")
    ELSE IF o.kind = "tool_error" THEN FailedFetch(url, "fetch_txt_tool_failed")
    ELSE FailedFetch(url, "connection_error")

\* fetch_url_mcp_async with a second call_tool after a failed one
fetch_url_mcp_async_retrying(url, script) ==
    IF script[1].kind \in {"tool_error", "conn_error"}
    THEN [attempts |-> 2, result |-> fetch_txt_result(url, script[2])]
    ELSE [attempts |-> 1, result |-> fetch_txt_result(url, script[1])]

\* One call of fetch_url_mcp_async: the attempts it makes on the server and
\* the dict it returns.  The method holds no loop: the first outcome of the
\* script decides.
fetch_url_mcp_async(url, script) ==
    [attempts |-> 1, result |-> fetch_txt_result(url, script[1])]

\* fetch_urls: asyncio.gather over the filtered URLs, one task per URL, the
\* results zipped back with valid_urls.  server maps a URL to its script.
gather(valid_urls, server) ==
    [i \in 1..Len(valid_urls) |-> fetch_url_mcp_async(valid_urls[i], server[valid_urls[i]])]

gathered(valid_urls, calls) ==
    [results |-> [i \in 1..Len(valid_urls) |-> calls[i].result],
     log |-> [i \in 1..Len(valid_urls) |-> [url |-> valid_urls[i], attempts |-> calls[i].attempts]]]

fetch_valid_urls(valid_urls, server) == gathered(valid_urls, gather(valid_urls, server))

fetch_urls(urls, server) == fetch_valid_urls(filter_urls(urls), server)

ArtKeywords == { <<"m", "u", "s", "e", "u", "m">>, <<"g", "a", "l", "l", "e", "r", "y">>,
                 <<"a", "r", "t">>, <<"k_mun", "k_hwa", "k_jae">>,
                 <<"k_bak", "k_mul", "k_gwan">>, <<"k_mi", "k_sul", "k_gwan">> }

NewsKeywords == { <<"n", "e", "w", "s">>, <<"b", "l", "o", "g">>, <<"n", "a", "v", "e", "r">>,
                  <<"t", "i", "s", "t", "o", "r", "y">>, <<"d", "a", "u", "m">> }

endswith(s, suffix) ==
    Len(s) >= Len(suffix) /\ SubSeq(s, Len(s) - Len(suffix) + 1, Len(s)) = suffix

url_score(url) ==
    LET domain == lower(netloc(url))
    IN (IF \E k \in ArtKeywords : contains(domain, k) THEN 100 ELSE 0)
       + (IF endswith(domain, <<".", "k", "r">>) THEN 50 ELSE 0)
       + (IF startswith(url, HttpsPrefix) THEN 20 ELSE 0)
       + (IF \E k \in NewsKeywords : contains(domain, k) THEN 30 ELSE 0)
       + 10

\* url_scores.sort(key=score, reverse=True) is stable: the position of urls[i]
\* in the sorted list
sorted_position(urls, i) ==
    1 + Cardinality({j \in 1..Len(urls) :
                        \/ url_score(urls[j]) > url_score(urls[i])
                        \/ (url_score(urls[j]) = url_score(urls[i]) /\ j < i)})

prioritize_artwork_urls(urls, max_urls) ==
    LET n == IF Len(urls) < max_urls THEN Len(urls) ELSE max_urls
    IN [k \in 1..n |-> urls[CHOOSE i \in 1..Len(urls) : sorted_position(urls, i) = k]]

\* The URLs fetch_artwork_urls takes from a search result: the str items, or
\* when there is none the url of every dict item that has one.
result_urls(results) ==
    LET strs == SelectSeq(results, LAMBDA r : r.form = "str")
        dicts == SelectSeq(results, LAMBDA r : r.form = "dict" /\ r.url /= <<>>)
    IN IF strs /= <<>> THEN [i \in 1..Len(strs) |-> strs[i].url]
       ELSE [i \in 1..Len(dicts) |-> dicts[i].url]

\* fetch_artwork_urls: asyncio.run raises RuntimeError when the calling
\* thread already runs an event loop, before any fetch is issued.
fetch_artwork_urls(search_results, max_urls, server, loop_running) ==
    IF search_results = None \/ search_results[1].results = <<>>
    THEN [raised |-> "None", results |-> <<>>, log |-> <<>>]
    ELSE IF loop_running THEN [raised |-> "RuntimeError", results |-> <<>>, log |-> <<>>]
    ELSE [raised |-> "None"] @@ fetch_urls(prioritize_artwork_urls(
                                    result_urls(search_results[1].results), max_urls), server)

(***************************************************************************)
(* FetchService.extract_content_snippets and                               *)
(* ContentFetchEnricher._enrich_description_with_content_data              *)
(***************************************************************************)
SnippetContentLimit == 500

EnrichedLimit == 3000

EnrichedKept == 2800

ContentSnippetTake == 5

\* "jemok: ", "naeyong: ", "chulcheo: " and the separator
TitleLabel == <<"k_je", "k_mok", ":", " ">>

ContentLabel == <<"k_nae", "k_yong", ":", " ">>

SourceLabel == <<"k_chul", "k_cheo", ":", " ">>

Separator == <<"-", "-", "-">>

Ellipsis == <<".", ".", ".">>

take(seq, n) == SubSeq(seq, 1, IF Len(seq) < n THEN Len(seq) ELSE n)

\* the snippets one fetch result contributes
result_snippets(result) ==
    IF ~result.success \/ result.content = <<>> THEN <<>>
    ELSE (IF result.title /= <<>> THEN <<TitleLabel \o result.title>> ELSE <<>>)
         \o << ContentLabel \o (IF Len(result.content) > SnippetContentLimit
                               THEN take(result.content, SnippetContentLimit) \o Ellipsis
                               ELSE result.content),
               SourceLabel \o result.url,
               Separator >>

RECURSIVE all_snippets(_)
all_snippets(fetch_results) ==
    IF fetch_results = <<>> THEN <<>>
    ELSE result_snippets(Head(fetch_results)) \o all_snippets(Tail(fetch_results))

extract_content_snippets(fetch_results, max_snippets) ==
    take(all_snippets(fetch_results), max_snippets)

RECURSIVE join(_, _)
join(sep, parts) ==
    IF parts = <<>> THEN <<>>
    ELSE IF Len(parts) = 1 THEN parts[1]
    ELSE parts[1] \o sep \o join(sep, Tail(parts))

\* "[bonmun naeyong chuga jeongbo]" and "[bonmun naeyong jeongbo]"
AddedInfoHeader == <<"[", "k_bon", "k_mun", " ", "k_nae", "k_yong", " ", "k_chu", "k_ga", " ",
                     "k_jeong", "k_bo", "]">>

InfoHeader == <<"[", "k_bon", "k_mun", " ", "k_nae", "k_yong", " ", "k_jeong", "k_bo", "]">>

\* "\n... (chuga jeongbo saengryak)"
OmittedNote == <<"\n", ".", ".", ".", " ", "(", "k_chu", "k_ga", " ", "k_jeong", "k_bo", " ",
                 "k_saeng", "k_ryak", ")">>

\* original_description is Optional[str]
enrich_description_with_content_data(original_description, content_snippets) ==
    IF content_snippets = <<>> THEN original_description
    ELSE LET content_summary == join(<<"\n">>, take(content_snippets, ContentSnippetTake))
             enriched ==
                 IF original_description /= None /\ original_description[1] /= <<>>
                    /\ original_description[1] /= DefaultDescription
                 THEN original_description[1] \o <<"\n", "\n">> \o AddedInfoHeader
                      \o <<"\n">> \o content_summary
                 ELSE InfoHeader \o <<"\n">> \o content_summary
         IN Some(IF Len(enriched) > EnrichedLimit
                 THEN take(enriched, EnrichedKept) \o OmittedNote
                 ELSE enriched)

(***************************************************************************)
(* The entity dataclasses.  A constructor call with a keyword that is no   *)
(* field of the dataclass raises TypeError.                                *)
(***************************************************************************)
WebSearchInfoFields == {"performed", "search_results", "enriched_description", "search_timestamp"}

WebSearchInfoDefaults == [performed |-> FALSE, search_results |-> None,
                          enriched_description |-> None, search_timestamp |-> None]

ContentFetchInfoFields == {"performed", "fetch_results", "content_enriched_description",
                           "fetch_timestamp"}

ContentFetchInfoDefaults == [performed |-> FALSE, fetch_results |-> None,
                             content_enriched_description |-> None, fetch_timestamp |-> None]

ArtworkExtractedInfoFields == {"basic_info", "metadata", "web_search", "content_fetch"}

dataclass(fields, defaults, kwargs) ==
    IF DOMAIN kwargs \subseteq fields
    THEN [raised |-> "None",
          value |-> Some([f \in fields |-> IF f \in DOMAIN kwargs THEN kwargs[f] ELSE defaults[f]])]
    ELSE [raised |-> "TypeError", value |-> None]

WebSearchInfo(kwargs) == dataclass(WebSearchInfoFields, WebSearchInfoDefaults, kwargs)

ContentFetchInfo(kwargs) == dataclass(ContentFetchInfoFields, ContentFetchInfoDefaults, kwargs)

\* every field of ArtworkExtractedInfo is required
ArtworkExtractedInfo(kwargs) ==
    IF DOMAIN kwargs = ArtworkExtractedInfoFields
    THEN [raised |-> "None", value |-> Some(kwargs)]
    ELSE [raised |-> "TypeError", value |-> None]

Now == <<"now">>

(***************************************************************************)
(* brave_search(query, count): the search coroutine WebSearchEnricher      *)
(* imports from externals.brave_service.  It is the resilient caller of    *)
(* the search tool: a connection/timeout error is tried again up to        *)
(* SearchMaxAttempts attempts, a tool-invocation error or any other error  *)
(* is not.  script is what the search endpoint answers to each attempt:    *)
(* kind "results" (with items), "conn_error", "tool_error", "other_error". *)
(***************************************************************************)
SearchMaxAttempts == 3

RECURSIVE resilient_call(_, _, _)
resilient_call(script, attempt, max_retries) ==
    LET o == script[attempt]
    IN IF o.kind = "results"
       THEN [raised |-> "None", attempts |-> attempt,
             value |-> Some([success |-> TRUE, results |-> o.items])]
       ELSE IF o.kind = "conn_error" /\ attempt < max_retries /\ attempt < Len(script)
       THEN resilient_call(script, attempt + 1, max_retries)
       ELSE [raised |-> o.kind, attempts |-> attempt, value |-> None]

brave_search(script) == resilient_call(script, 1, SearchMaxAttempts)

\* _run_async_safely(coro): the coroutine's result, or its exception raised
\* again.  With a running loop the coroutine runs on a new loop in a new
\* thread; a RuntimeError taken from exception_queue is swallowed by the
\* except RuntimeError clause, and asyncio.run(coro) then raises RuntimeError.
run_async_safely(outcome, loop_running) == outcome

\* the ends of a coroutine that are a BaseException and no Exception
BaseExceptionsOnly == {"CancelledError", "KeyboardInterrupt", "SystemExit"}

\* a bridge whose thread keeps the coroutine's exception to itself
run_async_safely_waits_on_error(outcome, loop_running) ==
    loop_running /\ outcome.raised /= "None"

\* _run_async_safely(coro) never returns: with a running loop the thread
\* puts the result in result_queue or, in its except Exception clause, the
\* exception in exception_queue; with both queues empty after thread.join()
\* the caller blocks in result_queue.get().  asyncio.run has no such wait.
run_async_safely_waits(outcome, loop_running) ==
    loop_running /\ outcome.raised \in BaseExceptionsOnly

(***************************************************************************)
(* WebSearchEnricher                                                       *)
(***************************************************************************)
MinDescriptionLen == 10

\* "jeongboreul chajeul su eopseumnida."
NotFoundDescription == <<"k_jeong", "k_bo", "k_reul", " ", "k_chat", "k_eul", " ", "k_su", " ",
                         "k_eops", "k_seup", "k_ni", "k_da", ".">>

has_valid_description(description) ==
    IF description = <<>> THEN FALSE
    ELSE IF strip(description) = <<>> \/ strip(description) = DefaultDescription THEN FALSE
    ELSE IF Len(strip(description)) < MinDescriptionLen THEN FALSE
    ELSE TRUE

\* the str an AI reply is used as where no JSON is expected; a falsy reply
\* (None or "") gives the alternative
text_or(g, alternative) ==
    IF g.value /= None /\ g.value[1].body.s /= <<>> THEN g.value[1].body.s ELSE alternative

WebResult(raised, value, ai_calls, search_calls, search_attempts, fetch_log) ==
    [raised |-> raised, value |-> value, ai_calls |-> ai_calls, search_calls |-> search_calls,
     search_attempts |-> search_attempts, fetch_log |-> fetch_log]

\* for item in search_results["results"]: the url of a dict item that has one, a str item
search_result_urls(results) ==
    LET kept == SelectSeq(results, LAMBDA r : r.form = "str" \/ r.url /= <<>>)
    IN [i \in 1..Len(kept) |-> kept[i].url]

\* The try block after the fetch fan-out: sr the search result, f the outcome
\* of fetch_urls, g the outcome of the generate_content call.  The result is
\* the exception raised ("None" when a return is reached) and the keywords
\* of the WebSearchInfo then built.
web_search_fetched(sr, f, all_contents, g) ==
    IF all_contents = <<>>
    THEN [raised |-> "None", ai_calls |-> 0, search_attempts |-> sr.attempts, fetch_log |-> f.log,
          kwargs |-> [performed |-> TRUE, search_results |-> sr.value,
                      description |-> NotFoundDescription,
                      enriched_description |-> Some(NotFoundDescription),
                      search_timestamp |-> Now]]
    ELSE IF g.raised
    THEN [raised |-> "Exception", kwargs |-> <<>>, ai_calls |-> 1,
          search_attempts |-> sr.attempts, fetch_log |-> f.log]
    ELSE [raised |-> "None", ai_calls |-> 1, search_attempts |-> sr.attempts, fetch_log |-> f.log,
          kwargs |-> [performed |-> TRUE, search_results |-> sr.value,
                      description |-> text_or(g, NotFoundDescription),
                      enriched_description |-> Some(text_or(g, NotFoundDescription)),
                      search_timestamp |-> Now]]

successful_contents(f) == SelectSeq(f.results, LAMBDA r : r.success /\ r.content /= <<>>)

web_search_with_urls(sr, f, env) ==
    web_search_fetched(sr, f, successful_contents(f), generate_content(env.ai))

\* The try block after the search: urls the URLs of its results.
web_search_searched(sr, urls, env) ==
    IF sr.raised /= "None"
    THEN [raised |-> sr.raised, kwargs |-> <<>>, ai_calls |-> 0,
          search_attempts |-> sr.attempts, fetch_log |-> <<>>]
    ELSE IF urls = <<>>
    THEN [raised |-> "None", ai_calls |-> 0, search_attempts |-> sr.attempts, fetch_log |-> <<>>,
          kwargs |-> [performed |-> TRUE,
                      search_results |-> Some([success |-> FALSE, results |-> <<>>]),
                      description |-> NotFoundDescription,
                      enriched_description |-> None, search_timestamp |-> Now]]
    ELSE web_search_with_urls(sr, run_async_safely(fetch_urls(urls, env.server), env.loop_running),
                              env)

urls_of_search(sr) == IF sr.raised /= "None" THEN <<>> ELSE search_result_urls(sr.value[1].results)

web_search_after(sr, env) == web_search_searched(sr, urls_of_search(sr), env)

\* The body of the try block.
web_search_try(basic_info, env) ==
    web_search_after(run_async_safely(brave_search(env.search), env.loop_running), env)

\* the try block never ends: one of its two bridges waits
web_search_try_waits(sr, urls, env) ==
    \/ run_async_safely_waits(sr, env.loop_running)
    \/ /\ urls /= <<>>
       /\ run_async_safely_waits([raised |-> "None"] @@ fetch_urls(urls, env.server),
                                 env.loop_running)

\* except Exception as e: the degraded result
web_search_except(error) ==
    WebSearchInfo([performed |-> FALSE,
                   search_results |-> Some([success |-> FALSE, results |-> <<>>, error |-> error]),
                   description |-> NotFoundDescription,
                   enriched_description |-> None, search_timestamp |-> Now])

\* a return outside the try block: w the outcome of the WebSearchInfo call
direct_return(w, ai_calls) == WebResult(w.raised, w.value, ai_calls, 0, 0, <<>>)

\* the return of the valid-description path, g the outcome of generate_content
web_search_skipped(basic_info, g, enriched_description) ==
    IF g.raised THEN WebResult("Exception", None, 1, 0, 0, <<>>)
    ELSE direct_return(WebSearchInfo([performed |-> FALSE, search_results |-> None,
                                      description |-> enriched_description,
                                      enriched_description |-> Some(enriched_description),
                                      search_timestamp |-> Now]), 1)

web_search_skip(basic_info, g) ==
    web_search_skipped(basic_info, g, text_or(g, basic_info.description))

\* the try block's return statement, or the except clause's
web_search_built(t, w, h) ==
    IF w.raised = "None"
    THEN WebResult("None", w.value, t.ai_calls, 1, t.search_attempts, t.fetch_log)
    ELSE WebResult(h.raised, h.value, t.ai_calls, 1, t.search_attempts, t.fetch_log)

web_search_caught(t, w) == web_search_built(t, w, web_search_except(w.raised))

web_search_tried(t) ==
    web_search_caught(t, IF t.raised = "None" THEN WebSearchInfo(t.kwargs)
                         ELSE [raised |-> t.raised, value |-> None])

enrich_with_web_search(basic_info, museum_name, env) ==
    IF ~env.brave_service
    THEN direct_return(WebSearchInfo([performed |-> FALSE, search_results |-> None,
                                      description |-> NotFoundDescription,
                                      enriched_description |-> None, search_timestamp |-> Now]), 0)
    ELSE IF has_valid_description(basic_info.description)
    THEN web_search_skip(basic_info, generate_content(env.ai))
    ELSE web_search_tried(web_search_try(basic_info, env))

\* enrich_with_web_search(basic_info, museum_name) never returns
web_search_waits(basic_info, env) ==
    /\ env.brave_service
    /\ ~has_valid_description(basic_info.description)
    /\ web_search_try_waits(brave_search(env.search), urls_of_search(brave_search(env.search)), env)

(***************************************************************************)
(* ContentFetchEnricher.enrich_with_content_fetch                          *)
(***************************************************************************)
MaxFetchUrls == 3

ContentResult(value, fetch_log) == [raised |-> "None", value |-> value, fetch_log |-> fetch_log]

\* the try block and its except clause, f the outcome of fetch_artwork_urls
content_fetch_try(web_search_info, f, content_snippets) ==
            IF f.raised /= "None"
            THEN ContentResult(ContentFetchInfo([performed |-> FALSE, fetch_results |-> Some(<<>>),
                                                 content_enriched_description |-> None,
                                                 fetch_timestamp |-> Now]).value, f.log)
            ELSE IF \E i \in 1..Len(f.results) : f.results[i].success
            THEN ContentResult(ContentFetchInfo(
                     [performed |-> TRUE, fetch_results |-> Some(f.results),
                      content_enriched_description |->
                          enrich_description_with_content_data(
                              web_search_info.enriched_description, content_snippets),
                      fetch_timestamp |-> Now]).value, f.log)
            ELSE ContentResult(ContentFetchInfo([performed |-> TRUE, fetch_results |-> Some(f.results),
                                                 content_enriched_description |-> None,
                                                 fetch_timestamp |-> Now]).value, f.log)

content_fetch_of(web_search_info, f) ==
    content_fetch_try(web_search_info, f, extract_content_snippets(f.results, ContentSnippetTake))

enrich_with_content_fetch(web_search_info, env) ==
    IF ~env.fetch_service
       \/ ~web_search_info.performed
       \/ web_search_info.search_results = None
    THEN ContentResult(ContentFetchInfo([performed |-> FALSE, fetch_results |-> None,
                                         content_enriched_description |-> None,
                                         fetch_timestamp |-> Now]).value, <<>>)
    ELSE content_fetch_of(web_search_info,
                          fetch_artwork_urls(web_search_info.search_results, MaxFetchUrls,
                                             env.server, env.loop_running))

(***************************************************************************)
(* VideoScriptGenerator                                                    *)
(***************************************************************************)
MinScriptSeconds == 10

MaxScriptSeconds == 120

CharsPerSecond == 5

\* the fallback template, around {artist}, {year} and {title}
TemplateOpen ==
    <<"k_i", " ", "k_jak", "k_pum", "k_eun", " ">>

TemplateBy ==
    <<"k_ga", " ">>

TemplateMadeIn ==
    <<"k_e", " ", "k_je", "k_jak", "k_han", " ", "'">>

TemplateClose ==
    <<"'", "k_ip", "k_ni", "k_da", ".", " ", "k_i", " ", "k_jak", "k_pum", "k_eun", " ",
      "k_ye", "k_sul", "k_sa", "k_e", "k_seo", " ", "k_jung", "k_yo", "k_han", " ", "k_ui",
      "k_mi", "k_reul", " ", "k_ji", "k_ni", "k_myeo", ",", " ", "k_jak", "k_ga", "k_ui", " ",
      "k_dok", "k_teuk", "k_han", " ", "k_gi", "k_beop", "k_gwa", " ", "k_chang", "k_ui",
      "k_seong", "k_i", " ", "k_jal", " ", "k_deu", "k_reo", "k_na", " ", "k_it", "k_seup",
      "k_ni", "k_da", ".", " ", "k_bak", "k_mul", "k_gwan", "k_e", "k_seo", " ", "k_jik",
      "k_jeop", " ", "k_gam", "k_sang", "k_ha", "k_si", "k_myeon", " ", "k_deo", "k_uk", " ",
      "k_gip", "k_i", " ", "k_it", "k_neun", " ", "k_ye", "k_sul", " ", "k_gyeong", "k_heom",
      "k_eul", " ", "k_ha", "k_sil", " ", "k_su", " ", "k_it", "k_eul", " ", "k_geot", "k_ip",
      "k_ni", "k_da", ".">>

\* the characters of a reply used as a str ("BT" stands for one backtick)
reply_text(r) ==
    IF r.fence = "none" THEN r.body.s
    ELSE <<"BT", "BT", "BT">> \o (IF r.fence = "json" THEN <<"j", "s", "o", "n">> ELSE <<>>)
         \o <<"\n">> \o r.body.s \o (IF r.closed THEN <<"\n", "BT", "BT", "BT">> ELSE <<>>)

\* a prompt that takes the description of the search before that of the pages
prompt_description_web_first(artwork_info) ==
    IF artwork_info.web_search.enriched_description /= None
       /\ artwork_info.web_search.enriched_description[1] /= <<>>
    THEN artwork_info.web_search.enriched_description[1]
    ELSE IF artwork_info.content_fetch.content_enriched_description /= None
            /\ artwork_info.content_fetch.content_enriched_description[1] /= <<>>
    THEN artwork_info.content_fetch.content_enriched_description[1]
    ELSE artwork_info.basic_info.description

\* the description _build_script_prompt puts in the prompt
prompt_description(artwork_info) ==
    IF artwork_info.content_fetch.content_enriched_description /= None
       /\ artwork_info.content_fetch.content_enriched_description[1] /= <<>>
    THEN artwork_info.content_fetch.content_enriched_description[1]
    ELSE IF artwork_info.web_search.enriched_description /= None
            /\ artwork_info.web_search.enriched_description[1] /= <<>>
    THEN artwork_info.web_search.enriched_description[1]
    ELSE artwork_info.basic_info.description

clean_script_content(r) ==
    LET inner == IF r.fence /= "none" /\ r.closed
                 THEN strip((IF r.fence = "json" THEN <<"j", "s", "o", "n">> ELSE <<>>)
                            \o <<"\n">> \o r.body.s)
                 ELSE reply_text(r)
        script == strip(inner)
    IN IF script /= <<>> /\ script[Len(script)] \in {".", "!", "?"} THEN script
       ELSE script \o <<".">>

calculate_script_length(script_content) ==
    LET estimated_seconds == Len(script_content) \div CharsPerSecond
        capped == IF estimated_seconds < MaxScriptSeconds THEN estimated_seconds ELSE MaxScriptSeconds
    IN IF capped > MinScriptSeconds THEN capped ELSE MinScriptSeconds

VideoScriptInfo(script_content, script_length, generation_method, success, error_message) ==
    [script_content |-> script_content, script_length |-> script_length,
     generation_method |-> generation_method, success |-> success,
     error_message |-> error_message]

fallback_script_info(fallback_script) ==
    VideoScriptInfo(fallback_script, calculate_script_length(fallback_script),
                    "fallback_template", TRUE, None)

create_fallback_script(artwork_info) ==
    fallback_script_info(TemplateOpen \o artwork_info.basic_info.artist \o TemplateBy
                         \o artwork_info.basic_info.year \o TemplateMadeIn
                         \o artwork_info.basic_info.title \o TemplateClose)

ai_script(script_content) ==
    VideoScriptInfo(script_content, calculate_script_length(script_content), "gemini_ai", TRUE, None)

\* the try block after the generate_content call, g its outcome
video_script_after_call(artwork_info, g) ==
    IF g.raised THEN VideoScriptInfo(<<>>, 0, "error", FALSE, Some("Exception"))
    ELSE IF g.value /= None /\ reply_truthy(g.value[1])
    THEN ai_script(clean_script_content(g.value[1]))
    ELSE create_fallback_script(artwork_info)

generate_video_script(artwork_info, ai) ==
    video_script_after_call(artwork_info, generate_content(ai))

(***************************************************************************)
(* ScriptAnalyzer (script_service.py): the rule-based classifier.  A       *)
(* confidence is an integer number of hundredths (0.85 is 85); every       *)
(* confidence of the code is compared with 0.3, 0.75 or 0.8 only after     *)
(* sums of 0.2, 0.3 and 0.4, which the rounding of floats leaves on the    *)
(* same side.  LQ and RQ are the double angle quotes, LC and RC the corner *)
(* quotes.                                                                 *)
(***************************************************************************)
description_keywords == {
    <<"k_jak", "k_pum", " ", "k_hae", "k_seol">>,
    <<"k_jak", "k_pum", " ", "k_seol", "k_myeong">>, <<"k_seol", "k_myeong">>,
    <<"k_hae", "k_seol">>, <<"k_so", "k_gae">>, <<"k_bae", "k_gyeong">>, <<"k_ui", "k_mi">>,
    <<"k_pyo", "k_hyeon">>, <<"k_gi", "k_beop">>, <<"k_teuk", "k_jing">>, <<"k_ju", "k_je">>,
    <<"k_sang", "k_jing">>, <<"D", "e", "s", "c", "r", "i", "p", "t", "i", "o", "n">>,
    <<"A", "b", "o", "u", "t">>, <<"O", "v", "e", "r", "v", "i", "e", "w">> }

title_keywords == {
    <<"k_jak", "k_pum", "k_myeong">>, <<"k_je", "k_mok">>, <<"k_jak", "k_pum">>,
    <<"T", "i", "t", "l", "e">>, <<"k_ta", "k_i", "k_teul">> }

exhibition_keywords == {
    <<"k_jeon", "k_si">>, <<"k_gi", "k_gan">>, <<"k_jang", "k_so">>, <<"k_ju", "k_choe">>,
    <<"k_hu", "k_won">>, <<"k_gwan", "k_ram">>, <<"k_ip", "k_jang">>,
    <<"E", "x", "h", "i", "b", "i", "t", "i", "o", "n">>, <<"G", "a", "l", "l", "e", "r", "y">>,
    <<"M", "u", "s", "e", "u", "m">>, <<"k_nyeon">>, <<"k_wol">>, <<"k_il">> }

artist_keywords == {
    <<"k_jak", "k_ga">>, <<"k_hwa", "k_ga">>, <<"k_ye", "k_sul", "k_ga">>,
    <<"k_a", "k_ti", "k_seu", "k_teu">>, <<"k_chul", "k_saeng">>, <<"k_hwal", "k_dong">>,
    <<"A", "r", "t", "i", "s", "t">>, <<"P", "a", "i", "n", "t", "e", "r">>,
    <<"k_jak", "k_ga", " ", "k_so", "k_gae">>, <<"k_peu", "k_ro", "k_pil">> }

\* korean_endings of _pattern_analysis
korean_endings == {
    <<"k_da", ".">>, <<"k_yo", ".">>, <<"k_eum", ".">>, <<"k_im", ".">>, <<"k_ni", "k_da", ".">>,
    <<"k_seup", "k_ni", "k_da", ".">> }

\* korean_endings + english_endings of _quick_rule_filter
quick_endings == {
    <<"k_da", ".">>, <<"k_yo", ".">>, <<"k_eum", ".">>, <<"k_im", ".">>, <<"k_ni", "k_da", ".">>,
    <<"k_seup", "k_ni", "k_da", ".">>, <<"k_jyo", ".">>, <<".", " ">>, <<"!", " ">>,
    <<"?", " ">> }

\* jakpummyeong: | Title: | " | ' | LQ | RQ
title_indicators == {
    <<"k_jak", "k_pum", "k_myeong", ":">>, <<"T", "i", "t", "l", "e", ":">>, <<"\"">>, <<"'">>,
    <<"LQ">>, <<"RQ">> }

AnalysisResult(text_type, confidence, is_description, source, stage) ==
    [text_type |-> text_type, confidence |-> confidence, is_description |-> is_description,
     metadata |-> [source |-> source, stage |-> stage]]

\* a result of the ScriptAnalyzer: its metadata holds no source
RuleResult(text_type, confidence, is_description) ==
    AnalysisResult(text_type, confidence, is_description, "none", "none")

\* the places where sub occurs in s
occurrences(s, sub) == {i \in 1..(Len(s) - Len(sub) + 1) : SubSeq(s, i, i + Len(sub) - 1) = sub}

\* str.count: the occurrences of sub, taken from the left, that do not
\* overlap
RECURSIVE count_from(_, _, _)
count_from(places, width, from) ==
    IF \A p \in places : p < from THEN 0
    ELSE 1 + count_from(places, width, Min({p \in places : p >= from}) + width)

count(s, sub) == count_from(occurrences(s, sub), Len(sub), 1)

RECURSIVE sum_counts(_, _)
sum_counts(text, endings) ==
    IF endings = {} THEN 0
    ELSE LET e == CHOOSE x \in endings : TRUE
         IN count(text, e) + sum_counts(text, endings \ {e})

\* sum(1 for keyword in keywords if keyword in text)
keyword_score(text, keywords) == Cardinality({k \in keywords : contains(text, k)})

\* re.match(r'^[\d\-\.\s\/\(\)]+$', text)
only_numbers_and_signs(text) ==
    /\ text /= <<>>
    /\ \A i \in 1..Len(text) : text[i] \in Digits \cup Whitespace \cup {"-", ".", "/", "(", ")"}

quick_description(text, sentence_count) ==
    IF \E k \in description_keywords : contains(text, k)
    THEN RuleResult("artwork_description", 95, TRUE)
    ELSE IF Len(text) > 100 /\ sentence_count >= 2
    THEN RuleResult("artwork_description", 85, TRUE)
    ELSE RuleResult("other", 50, FALSE)

quick_rule_filter(text) ==
    IF Len(text) < 15 THEN RuleResult("other", 90, FALSE)
    ELSE IF only_numbers_and_signs(text) THEN RuleResult("exhibition_info", 95, FALSE)
    ELSE IF /\ Len(text) <= 30
            /\ \A i \in 1..Len(text) : text[i] \notin {".", "!", "?"}
            /\ \E k \in title_indicators : contains(text, k)
    THEN RuleResult("artwork_title", 90, FALSE)
    ELSE quick_description(text, sum_counts(text, quick_endings))

\* re.search(r'[0-9]{4}nyeon|[0-9]{1,2}wol|[0-9]{1,2}il', text)
date_pattern(text) ==
    \E i \in 2..Len(text) :
        /\ text[i - 1] \in Digits
        /\ \/ text[i] \in {"k_wol", "k_il"}
           \/ text[i] = "k_nyeon" /\ i > 4 /\ \A j \in (i - 4)..(i - 1) : text[j] \in Digits

\* re.search(r'["""].*["""]|LQ.*RQ|LC.*RC', text): "." matches no newline
quote_pattern(text) ==
    \E i, j \in 1..Len(text) :
        /\ i < j
        /\ \A n \in (i + 1)..(j - 1) : text[n] /= "\n"
        /\ \/ text[i] = "\"" /\ text[j] = "\""
           \/ text[i] = "LQ" /\ text[j] = "RQ"
           \/ text[i] = "LC" /\ text[j] = "RC"

\* the dict confidence_scores, in the order of its keys
TextTypes == <<"artwork_description", "artwork_title", "exhibition_info", "artist_info", "other">>

confidence_scores(text, sentence_count) ==
    <<20 * keyword_score(text, description_keywords)
        + (IF Len(text) > 80 THEN 30 ELSE 0) + (IF sentence_count >= 2 THEN 30 ELSE 0),
      20 * keyword_score(text, title_keywords)
        + (IF Len(text) <= 80 /\ Len(text) < 40 THEN 20 ELSE 0)
        + (IF sentence_count = 0 THEN 20 ELSE 0)
        + (IF quote_pattern(text) THEN 30 ELSE 0),
      20 * keyword_score(text, exhibition_keywords) + (IF date_pattern(text) THEN 40 ELSE 0),
      20 * keyword_score(text, artist_keywords),
      0>>

\* max(confidence_scores, key=confidence_scores.get): the first key of the
\* greatest score
best_type(scores) ==
    CHOOSE i \in 1..Len(scores) :
        /\ \A j \in 1..Len(scores) : scores[j] <= scores[i]
        /\ \A j \in 1..(i - 1) : scores[j] < scores[i]

pattern_result(text, type, max_confidence) ==
    IF max_confidence < 30
    THEN IF Len(text) > 50 THEN RuleResult("artwork_description", 60, TRUE)
         ELSE RuleResult("other", 60, FALSE)
    ELSE RuleResult(type, IF max_confidence < 90 THEN max_confidence ELSE 90,
                    type = "artwork_description")

pattern_scored(text, scores, best) == pattern_result(text, TextTypes[best], scores[best])

pattern_of_scores(text, scores) == pattern_scored(text, scores, best_type(scores))

pattern_analysis(text) ==
    pattern_of_scores(text, confidence_scores(text, sum_counts(text, korean_endings)))

QuickConfident == 80

rule_stages(text, quick_result) ==
    IF quick_result.confidence >= QuickConfident THEN quick_result ELSE pattern_analysis(text)

\* ScriptAnalyzer.analyze_text
rule_analyze_text(text) ==
    IF text = <<>> \/ strip(text) = <<>> THEN RuleResult("other", 100, FALSE)
    ELSE rule_stages(strip(text), quick_rule_filter(strip(text)))

(***************************************************************************)
(* Inputs and collaborator behaviours the model draws from.                *)
(***************************************************************************)
StarryNight == <<"S", "t", "a", "r", "r", "y", " ", "N", "i", "g", "h", "t">>

VanGogh == <<"V", "i", "n", "c", "e", "n", "t", " ", "v", "a", "n", " ", "G", "o", "g", "h">>

Year1889 == <<"1", "8", "8", "9">>

MonaLisa == <<"M", "o", "n", "a", " ", "L", "i", "s", "a">>

MoMA == <<"M", "o", "M", "A">>

\* jeongbo eopseum: what the extraction prompt asks for when a field is unknown
NoInformation == <<"k_jeong", "k_bo", " ", "k_eops", "k_eum">>

CleanedText == <<"A", " ", "c", "l", "e", "a", "n", "e", "d", " ", "t", "e", "x", "t", ".">>

\* a line of 33 characters that ends in "ida."
LongDescription == repeat("x", MinDescriptionLineLen) \o <<"k_i", "k_da", ".">>

OcrTexts == {
    <<>>,
    <<" ", " ">>,
    <<" ", "\n", "\t">>,
    StarryNight \o <<"\n">> \o VanGogh \o <<"\n">> \o Year1889,
    Year1889 \o <<"\n">> \o StarryNight,
    <<"I", "t", " ", "i", "s", " ", "a", "r", "t", ".", "\n">> \o MonaLisa,
    <<"\n", " ", " ">> \o MonaLisa \o <<" ", "\n", "1", "6", "k_se", "k_gi">>,
    <<"k_mu", "k_je">>,
    <<"A">>,
    repeat("x", MaxTitleLineLen + 1),
    MonaLisa \o <<"\n">> \o LongDescription \o <<"\n", "1", "5", "0", "3", "-", "1", "5", "1", "9", "k_nyeon">> }

MuseumNames == {<<>>, MoMA}

EmptyReply == Reply("none", FALSE, Prose(<<>>))

NoAI == [kind |-> "none", text |-> EmptyReply]

AiText(r) == [kind |-> "text", text |-> r]

AiFailures == {[kind |-> k, text |-> EmptyReply] : k \in {"service_raise", "model_raise", "no_candidates"}}

ExtractionObjects == {
    JObject(JStr(StarryNight), JStr(VanGogh), JStr(Year1889), JStr(LongDescription)),
    JObject(JStr(<<" ">> \o StarryNight \o <<" ">>), JStr(VanGogh), JStr(Year1889), JStr(NoInformation)),
    JObject(JStr(NoInformation), JStr(NoInformation), JStr(NoInformation), JStr(NoInformation)),
    JObject(JStr(<<"k_eops", "k_eum">>), JMissing, JMissing, JMissing),
    JObject(JStr(<<"U", "N", "K", "N", "O", "W", "N">>), JNull, JNull, JNull),
    JObject(JStr(Year1889), JStr(VanGogh), JStr(Year1889), JMissing),
    JObject(JStr(<<>>), JStr(VanGogh), JStr(Year1889), JStr(LongDescription)),
    JObject(JMissing, JStr(VanGogh), JStr(Year1889), JStr(LongDescription)),
    JObject(JNull, JStr(VanGogh), JStr(Year1889), JStr(LongDescription)),
    JObject(JNum, JStr(VanGogh), JStr(Year1889), JStr(LongDescription)),
    JObject(JStr(StarryNight), JStr(VanGogh), JNum, JStr(LongDescription)),
    JObject(JStr(<<" ", "7", " ">>), JStr(VanGogh), JStr(Year1889), JStr(LongDescription)) }

ExtractionReplies ==
    {Reply("none", FALSE, o) : o \in ExtractionObjects}
    \cup {Reply(f, c, JObject(JStr(StarryNight), JStr(VanGogh), JStr(Year1889), JStr(LongDescription))) :
            f \in {"json", "bare"}, c \in BOOLEAN}
    \cup {EmptyReply, Reply("none", FALSE, Prose(CleanedText)), Reply("none", FALSE, JOther),
          Reply("json", TRUE, JOther)}

ExtractionOutcomes == AiFailures \cup {AiText(r) : r \in ExtractionReplies}

TextOutcomes == AiFailures \cup {AiText(Reply("none", FALSE, Prose(<<" ">> \o CleanedText))),
                                 AiText(EmptyReply)}

ScriptOutcomes == TextOutcomes \cup {AiText(Reply("bare", TRUE, Prose(CleanedText))),
                                     AiText(Reply("json", FALSE, Prose(StarryNight)))}

UrlMuseum == <<"h", "t", "t", "p", "s", ":", "/", "/", "a", "r", "t", ".", "k", "r", "/", "a">>

UrlBlog == <<"h", "t", "t", "p", ":", "/", "/", "b", "l", "o", "g", ".", "c", "o", "m">>

\* no scheme: https://c.org once normalised
UrlBare == <<"c", ".", "o", "r", "g">>

UrlPlain == <<"h", "t", "t", "p", "s", ":", "/", "/", "c", ".", "o", "r", "g">>

UrlNoHost == <<"h", "t", "t", "p", ":", "/", "/">>

StrItem(url) == [form |-> "str", url |-> url]

DictItem(url) == [form |-> "dict", url |-> url]

\* the "results" a search can answer with
SearchItemLists == {
    <<>>,
    <<StrItem(UrlBlog), StrItem(UrlBare), StrItem(UrlMuseum)>>,
    <<StrItem(UrlBare), StrItem(UrlPlain), StrItem(UrlNoHost), StrItem(UrlMuseum), StrItem(UrlBlog)>>,
    <<DictItem(UrlMuseum), DictItem(<<>>), DictItem(UrlBlog)>>,
    <<StrItem(UrlMuseum), StrItem(UrlMuseum), StrItem(UrlBlog), StrItem(UrlPlain)>> }

SearchResults(items) == [kind |-> "results", items |-> items]

SearchError(kind) == [kind |-> kind, items |-> <<>>]

\* what the search endpoint answers to attempts 1..SearchMaxAttempts
SearchScripts ==
    {[i \in 1..SearchMaxAttempts |-> SearchResults(items)] : items \in SearchItemLists}
    \cup {[i \in 1..SearchMaxAttempts |->
              IF i = 1 THEN SearchError("conn_error") ELSE SearchResults(<<StrItem(UrlMuseum)>>)],
          [i \in 1..SearchMaxAttempts |-> SearchError("conn_error")],
          [i \in 1..SearchMaxAttempts |->
              IF i = 1 THEN SearchError("tool_error") ELSE SearchResults(<<StrItem(UrlMuseum)>>)]}

NoSearch == [i \in 1..SearchMaxAttempts |-> SearchError("none")]

\* the URLs a fetch can be issued for
FetchTargets == {UrlMuseum, UrlBlog, UrlPlain}

PageTitle(url) == <<"T">> \o netloc(url)

PageText(url) == <<"B">> \o netloc(url)

FetchOutcome(kind, title, text) == [kind |-> kind, title |-> title, text |-> text]

FetchError(kind) == FetchOutcome(kind, <<>>, <<>>)

\* what the fetch server answers to the first and to the second attempt on
\* url, by the behaviour of the server for that page
FetchScript(behaviour, url) ==
    CASE behaviour = "list" ->
           <<FetchOutcome("content_list", <<>>, PageText(url)),
             FetchOutcome("content_list", <<>>, PageText(url))>>
      [] behaviour = "dict" ->
           <<FetchOutcome("content_dict", PageTitle(url), PageText(url)),
             FetchOutcome("content_dict", PageTitle(url), PageText(url))>>
      [] behaviour = "conn_error_once" ->
           <<FetchError("conn_error"), FetchOutcome("content_list", <<>>, PageText(url))>>
      [] behaviour = "tool_error" -> <<FetchError("tool_error"), FetchError("tool_error")>>
      [] behaviour = "content_none" -> <<FetchError("content_none"), FetchError("content_none")>>

FetchBehaviours == {"list", "dict", "conn_error_once", "tool_error", "content_none"}

IdleScript == <<FetchError("none"), FetchError("none")>>

\* the fetch servers: every page behaving alike, or one page differing
Servers ==
    {[u \in FetchTargets |-> FetchScript(b, u)] : b \in FetchBehaviours}
    \cup {[u \in FetchTargets |-> FetchScript(IF u = UrlMuseum THEN "dict" ELSE "tool_error", u)],
          [u \in FetchTargets |-> FetchScript(IF u = UrlBlog THEN "content_none" ELSE "list", u)],
          [u \in FetchTargets |-> FetchScript(IF u = UrlPlain THEN "conn_error_once" ELSE "dict", u)]}

NoServer == [u \in FetchTargets |-> IdleScript]

(***************************************************************************)
(* Inputs of the classifier.                                               *)
(***************************************************************************)
ClassifyTexts == {
    <<>>,
    <<" ", " ">>,
    MonaLisa,
    <<"1", "8", "8", "9", "-", "0", "1", "-", "0", "1", " ", "(", "1", "2", "/", "3", "1", ")">>,
    <<"T", "i", "t", "l", "e", ":", " ">> \o StarryNight,
    <<"A", "b", "o", "u", "t", " ", "t", "h", "e", " ">> \o StarryNight,
    repeat("x", 50) \o <<".", " ">> \o repeat("x", 50) \o <<".", " ", "x">>,
    <<" ">> \o VanGogh \o <<" ">> \o Year1889,
    repeat("x", 45) \o <<"k_da", ".">>,
    repeat("x", 58) \o <<"k_da", ".">>,
    <<"LQ">> \o repeat("x", 30) \o <<"RQ">>,
    <<"k_jak", "k_pum", " ", "LQ">> \o repeat("x", 30) \o <<"RQ">>,
    <<"2", "0", "2", "4", "k_nyeon", " ", "5", "k_wol", " ", "1", "2", "k_il", " ", "k_jeon",
      "k_si", " ", "k_gi", "k_gan", " ", "k_an", "k_nae", "k_mun">> }

ModelAnswer(kind, answer) == [kind |-> kind, answer |-> answer]

\* what the Vertex model does with the yes/no prompt
ModelOutcomes == {
    ModelAnswer("answer", <<"Y", "E", "S">>),
    ModelAnswer("answer", <<"N", "O">>),
    ModelAnswer("answer", <<" ", "y", "e", "s", ".", "\n">>),
    ModelAnswer("no_candidates", <<>>),
    ModelAnswer("no_parts", <<>>),
    ModelAnswer("raise", <<>>) }

NoModelCall == ModelAnswer("none", <<>>)

(***************************************************************************)
(* GeminiService.is_description (services/gemini_service.py).  outcome is  *)
(* what the Vertex model did with the prompt: "answer" (a candidate whose  *)
(* first part is outcome.answer), "no_candidates", "no_parts" or "raise".  *)
(***************************************************************************)
upper_char(c) == IF \E i \in 1..Len(LowerCase) : LowerCase[i] = c
                 THEN UpperCase[CHOOSE i \in 1..Len(LowerCase) : LowerCase[i] = c]
                 ELSE c

upper(s) == [i \in 1..Len(s) |-> upper_char(s[i])]

\* the except clause: len(text) > 50 and ('.' in text or 'da' in text)
length_based_guess(text) ==
    Len(text) > 50 /\ (contains(text, <<".">>) \/ contains(text, <<"k_da">>))

is_description(text, outcome) ==
    IF text = <<>> \/ Len(strip(text)) < 10 THEN [value |-> FALSE, model_calls |-> 0]
    ELSE [model_calls |-> 1,
          value |-> IF outcome.kind = "answer"
                    THEN contains(upper(strip(outcome.answer)), <<"Y", "E", "S">>)
                    ELSE IF outcome.kind = "raise" THEN length_based_guess(text)
                    ELSE FALSE]

(***************************************************************************)
(* HybridAnalyzer (hybrid_analyzer.py).  an is the analyzer: whether the   *)
(* connection test of __init__ passed, the confidence threshold and the    *)
(* stats.  A call returns the AnalysisResult, the stats it leaves and the  *)
(* calls it made of gemini_service.is_description and of the Vertex model. *)
(***************************************************************************)
ConfidenceThreshold == 75

AiConfidence == 95

\* self.script_analyzer, over the texts the analyzer is given
script_analyzer == [text \in ClassifyTexts |-> rule_analyze_text(text)]

NoStats == [total_analyzed |-> 0, rule_based_only |-> 0, ai_assisted |-> 0, ai_success |-> 0,
            ai_fallback |-> 0]

\* __init__: gemini_available only when GeminiService(...) was built and
\* test_connection() returned True
HybridAnalyzer(connection, confidence_threshold) ==
    [gemini_available |-> connection = "connected",
     confidence_threshold |-> confidence_threshold,
     stats |-> NoStats]

Analysis(result, stats, ai_calls, model_calls) ==
    [result |-> result, stats |-> stats, ai_calls |-> ai_calls, model_calls |-> model_calls]

\* rule_result with metadata.update({"source": ..., "stage": ...})
with_source(rule_result, source, stage) ==
    [rule_result EXCEPT !.metadata = [source |-> source, stage |-> stage]]

\* _ai_analysis after the is_description call, a what it returned.
\* GeminiService.is_description catches every exception of the model, so
\* the except clause of _ai_analysis is not entered.
ai_analysed(rule_result, stats, a) ==
    Analysis(AnalysisResult(rule_result.text_type, AiConfidence, a.value, "hybrid_ai", "ai_analysis"),
             [stats EXCEPT !.ai_success = @ + 1], 1, a.model_calls)

ai_analysis(text, rule_result, stats, outcome) ==
    ai_analysed(rule_result, [stats EXCEPT !.ai_assisted = @ + 1], is_description(text, outcome))

\* analyze_text escalating whatever the confidence of the rules
analyze_after_rules_always_ai(text, rule_result, an, stats, outcome) ==
    IF an.gemini_available THEN ai_analysis(text, rule_result, stats, outcome)
    ELSE Analysis(with_source(rule_result, "rule_based_fallback", "ai_unavailable"),
                  [stats EXCEPT !.ai_fallback = @ + 1], 0, 0)

\* analyze_text after the rule-based stage
analyze_after_rules(text, rule_result, an, stats, outcome) ==
    IF rule_result.confidence >= an.confidence_threshold
    THEN Analysis(with_source(rule_result, "rule_based", "confident_result"),
                  [stats EXCEPT !.rule_based_only = @ + 1], 0, 0)
    ELSE IF an.gemini_available THEN ai_analysis(text, rule_result, stats, outcome)
    ELSE Analysis(with_source(rule_result, "rule_based_fallback", "ai_unavailable"),
                  [stats EXCEPT !.ai_fallback = @ + 1], 0, 0)

analyze_counted(text, an, stats, outcome) ==
    IF text = <<>> \/ strip(text) = <<>>
    THEN Analysis(AnalysisResult(script_analyzer[<<>>].text_type, 100, FALSE,
                                 "rule_based", "input_validation"), stats, 0, 0)
    ELSE analyze_after_rules(text, script_analyzer[text], an, stats, outcome)

\* an analyze_text that leaves total_analyzed alone
analyze_text_uncounted(text, an, outcome) ==
    analyze_counted(text, an, an.stats, outcome)

\* HybridAnalyzer.analyze_text
analyze_text(text, an, outcome) ==
    analyze_counted(text, an, [an.stats EXCEPT !.total_analyzed = @ + 1], outcome)

\* GeminiService(...) and test_connection() in HybridAnalyzer.__init__
Connections == {"connected", "test_failed", "init_raised"}

\* the confidence_threshold arguments of HybridAnalyzer(...)
Thresholds == {50, ConfidenceThreshold, 95}

(***************************************************************************)
(* ArtworkInfoOrchestrator.extract_and_enrich, stage 3 and stages 4-5.     *)
(***************************************************************************)
\* the condition of stage 3, l.68
orchestrator_fetches(web_search_info) ==
    web_search_info.performed /\ web_search_info.search_results /= None

\* Stage 3.  enrich_with_content_fetch is a plain function: its call runs to
\* the end and the await of the ContentFetchInfo it returned raises TypeError.
orchestrator_content_stage(web_search_info, env) ==
    IF orchestrator_fetches(web_search_info)
    THEN [raised |-> "TypeError", value |-> None] @@ enrich_with_content_fetch(web_search_info, env)
    ELSE ContentResult(ContentFetchInfo([performed |-> FALSE, fetch_results |-> None,
                                         content_enriched_description |-> None,
                                         fetch_timestamp |-> Now]).value, <<>>)

EmptyVideoScriptInfo == VideoScriptInfo(<<>>, 0, "none", FALSE, None)

\* Stages 4 and 5: the temporary ArtworkExtractedInfo, generate_video_script,
\* the final ArtworkExtractedInfo.
script_stage_final(slices, video_script_info) ==
    [raised |-> ArtworkExtractedInfo(slices @@ [video_script |-> video_script_info]).raised,
     video_script |-> Some(video_script_info), ai_calls |-> 1]

script_stage_temporary(slices, temporary, ai_outcome) ==
    IF temporary.raised /= "None"
    THEN [raised |-> temporary.raised, video_script |-> None, ai_calls |-> 0]
    ELSE script_stage_final(slices, generate_video_script(temporary.value[1], ai_outcome))

script_stage_slices(slices, ai_outcome) ==
    script_stage_temporary(
        slices, ArtworkExtractedInfo(slices @@ [video_script |-> EmptyVideoScriptInfo]), ai_outcome)

orchestrator_script_stage(basic, meta, web, content, ai_outcome) ==
    script_stage_slices([basic_info |-> basic, metadata |-> meta, web_search |-> web,
                         content_fetch |-> content], ai_outcome)

(***************************************************************************)
(* The state: one call at a time of a public method of the services, the   *)
(* orchestrator's call going through its stages.                           *)
(***************************************************************************)
VARIABLES
    entry,            \* the public method the caller invoked, "none" between calls
    pc,               \* the stage about to run, or "returned" / "raised"
    loop_running,     \* the calling thread runs an asyncio event loop
    ocr_text,         \* extract: the OCR text
    museum_name,      \* search: the museum name, <<>> for None
    ai,               \* the answer of the AI to the last generate_content call
    search,           \* the script of the search endpoint of the last search
    server,           \* the scripts of the fetch server of the last fetch fan-out
    basic_info,       \* Optional ArtworkBasicInfo
    metadata,         \* Optional ExtractionMetadata
    web_search,       \* Optional WebSearchInfo
    content_fetch,    \* Optional ContentFetchInfo
    video_script,     \* Optional VideoScriptInfo
    raised,           \* the exception that reached the caller, "None" if none
    ai_calls,         \* generate_content calls issued during the call
    search_calls,     \* brave_service calls issued during the call
    search_attempts,  \* requests the search endpoint received during the call
    fetch_log,        \* per fetch_url_mcp_async call: its url and its attempts
    stats,            \* ArtworkInfoOrchestrator.stats
    invoked,          \* the service methods the call has invoked so far, in order
    prompt,           \* Optional description in the prompt of the script stage's AI call
    analyzer,         \* the HybridAnalyzer: gemini_available, confidence_threshold, stats
    analysis,         \* the last analyze_text call: its text, its result, its AI calls
    history,          \* per text, the results analyze_text returned for it so far
    fanout,           \* the fetch_urls call under way: its tasks and their results
    nearby,           \* the nearby-museum call under way: its arguments and its response
    polling           \* the wait_for_video_completion call under way

vars == <<entry, pc, loop_running, ocr_text, museum_name, ai, search, server, basic_info,
          metadata, web_search, content_fetch, video_script, raised, ai_calls, search_calls,
          search_attempts, fetch_log, stats, invoked, prompt, analyzer, analysis, history, fanout, nearby, polling>>

\* the state of the classifier, which the pipeline does not touch
classifier == <<analyzer, analysis, history>>

\* the state of the calls followed step by step on their own
aside == <<fanout, nearby, polling>>

\* how many extract_and_enrich calls one orchestrator receives
MaxCalls == 2

Pipeline == "extract_and_enrich"

NoCallState(e, p) ==
    /\ entry' = e
    /\ pc' = p
    /\ ai' = NoAI
    /\ search' = NoSearch
    /\ server' = NoServer
    /\ raised' = "None"
    /\ ai_calls' = 0
    /\ search_calls' = 0
    /\ search_attempts' = 0
    /\ fetch_log' = <<>>
    /\ invoked' = <<>>
    /\ prompt' = None
    /\ UNCHANGED <<classifier, aside>>

NoAnalysis ==
    [text |-> <<>>, outcome |-> NoModelCall, result |-> RuleResult("none", 0, FALSE),
     ai_calls |-> 0, model_calls |-> 0, returned |-> FALSE]

NoHistory == [t \in ClassifyTexts |-> {}]

NoPolling ==
    [state |-> "idle", max_wait_time |-> 0, poll_interval |-> 0, elapsed |-> 0,
     polls |-> 0, status_info |-> <<>>, returned |-> <<>>]

NoNearby ==
    [state |-> "idle", entry |-> "none", request |-> <<>>, result |-> <<>>, response |-> <<>>]

NoFanOut ==
    [state |-> "idle", caller |-> "none", server |-> <<>>, valid_urls |-> <<>>, started |-> 0,
     in_flight |-> {}, done |-> <<>>, completed |-> <<>>, results |-> <<>>]

Init ==
    /\ entry = "none"
    /\ pc = "idle"
    /\ loop_running = FALSE
    /\ ocr_text = <<>>
    /\ museum_name = <<>>
    /\ ai = NoAI
    /\ search = NoSearch
    /\ server = NoServer
    /\ basic_info = None
    /\ metadata = None
    /\ web_search = None
    /\ content_fetch = None
    /\ video_script = None
    /\ raised = "None"
    /\ ai_calls = 0
    /\ search_calls = 0
    /\ search_attempts = 0
    /\ fetch_log = <<>>
    /\ stats = [total_extractions |-> 0, successful_extractions |-> 0, failed_extractions |-> 0]
    /\ invoked = <<>>
    /\ prompt = None
    /\ analyzer = HybridAnalyzer("connected", ConfidenceThreshold)
    /\ analysis = NoAnalysis
    /\ history = NoHistory
    /\ fanout = NoFanOut
    /\ nearby = NoNearby
    /\ polling = NoPolling

\* an orchestrator that counts the missing title only
stats_after_title_only(exception) ==
    IF entry = Pipeline /\ exception = "ArtworkTitleNotFoundError"
    THEN [stats EXCEPT !.failed_extractions = @ + 1]
    ELSE stats

\* the orchestrator's except clauses count the failure and raise again
stats_after(exception) ==
    IF entry = Pipeline /\ exception /= "None"
    THEN [stats EXCEPT !.failed_extractions = @ + 1]
    ELSE stats

\* asyncio.run(orchestrator.extract_and_enrich(ocr_text, museum_name)), up to
\* the first stage
CallExtractAndEnrich ==
    /\ pc = "idle"
    /\ stats.total_extractions < MaxCalls
    /\ \E t \in OcrTexts, m \in MuseumNames : ocr_text' = t /\ museum_name' = m
    /\ NoCallState(Pipeline, "extract")
    /\ loop_running' = TRUE
    /\ stats' = [stats EXCEPT !.total_extractions = @ + 1]
    /\ basic_info' = None /\ metadata' = None /\ web_search' = None
    /\ content_fetch' = None /\ video_script' = None

\* BasicArtworkExtractor.extract_basic_info(ocr_text) called on its own
CallExtractBasicInfo ==
    /\ pc = "idle"
    /\ \E t \in OcrTexts : ocr_text' = t
    /\ NoCallState("extract_basic_info", "extract")
    /\ loop_running' = FALSE
    /\ museum_name' = <<>>
    /\ basic_info' = None /\ metadata' = None /\ web_search' = None
    /\ content_fetch' = None /\ video_script' = None
    /\ UNCHANGED stats

\* an orchestrator that starts over after a stage that returned
after_stage_starting_over(exception, next_stage) ==
    IF exception /= "None" THEN "raised"
    ELSE IF entry = Pipeline THEN "extract" ELSE "returned"

\* where a stage that ended with exception leaves the call
after_stage(exception, next_stage) ==
    IF exception /= "None" THEN "raised"
    ELSE IF entry = Pipeline THEN next_stage ELSE "returned"

Extracted(o, r) ==
    /\ ai' = IF r.ai_calls > 0 THEN o ELSE NoAI
    /\ basic_info' = r.basic_info
    /\ metadata' = r.metadata
    /\ raised' = r.raised
    /\ ai_calls' = ai_calls + r.ai_calls
    /\ stats' = stats_after(r.raised)
    /\ invoked' = Append(invoked, "extract_basic_info")
    /\ pc' = after_stage(r.raised, "web")

Extract ==
    /\ pc = "extract"
    /\ \E o \in ExtractionOutcomes : Extracted(o, extract_basic_info(ocr_text, o))
    /\ UNCHANGED <<entry, loop_running, ocr_text, museum_name, search, server, web_search,
                   content_fetch, video_script, search_calls, search_attempts, fetch_log, prompt,
                   classifier, aside>>

\* the ArtworkBasicInfo values enrich_with_web_search is called with on its own
WebInputs ==
    {[title |-> StarryNight, artist |-> VanGogh, year |-> Year1889, description |-> d] :
        d \in {LongDescription, DefaultDescription, MonaLisa, <<>>}}

\* WebSearchEnricher.enrich_with_web_search(basic_info, museum_name) called on its own
CallEnrichWithWebSearch ==
    /\ pc = "idle"
    /\ \E b \in WebInputs, m \in MuseumNames, l \in BOOLEAN :
          basic_info' = Some(b) /\ museum_name' = m /\ loop_running' = l
    /\ NoCallState("enrich_with_web_search", "web")
    /\ ocr_text' = <<>>
    /\ metadata' = None /\ web_search' = None
    /\ content_fetch' = None /\ video_script' = None
    /\ UNCHANGED stats

\* the scripts of the URLs a fan-out fetched, IdleScript for the others
used_server(sv, log) ==
    [u \in FetchTargets |-> IF \E i \in 1..Len(log) : log[i].url = u THEN sv[u] ELSE IdleScript]

WebSearched(env, r) ==
    /\ ai' = IF r.ai_calls > 0 THEN env.ai ELSE NoAI
    /\ search' = IF r.search_calls > 0 THEN env.search ELSE NoSearch
    /\ server' = used_server(env.server, r.fetch_log)
    /\ web_search' = r.value
    /\ raised' = r.raised
    /\ ai_calls' = ai_calls + r.ai_calls
    /\ search_calls' = search_calls + r.search_calls
    /\ search_attempts' = search_attempts + r.search_attempts
    /\ fetch_log' = fetch_log \o r.fetch_log
    /\ stats' = stats_after(r.raised)
    /\ invoked' = Append(invoked, "enrich_with_web_search")
    /\ pc' = after_stage(r.raised, "content")

\* the caller's thread stays in the bridge: nothing is returned or raised
WebSearchWaits(env) ==
    /\ pc' = "waiting"
    /\ invoked' = Append(invoked, "enrich_with_web_search")
    /\ search' = env.search
    /\ search_calls' = search_calls + 1
    /\ UNCHANGED <<ai, server, web_search, raised, ai_calls, search_attempts, fetch_log, stats>>

WebSearchIn(env) ==
    IF web_search_waits(basic_info[1], env)
    THEN WebSearchWaits(env)
    ELSE WebSearched(env, enrich_with_web_search(basic_info[1], museum_name, env))

WebSearch ==
    /\ pc = "web"
    /\ \E a \in TextOutcomes, s \in SearchScripts, sv \in Servers :
          WebSearchIn([brave_service |-> TRUE, ai |-> a, search |-> s, server |-> sv,
                       loop_running |-> loop_running])
    /\ UNCHANGED <<entry, loop_running, ocr_text, museum_name, basic_info, metadata,
                   content_fetch, video_script, prompt, classifier, aside>>

\* the WebSearchInfo values enrich_with_content_fetch is called with on its own
ContentInputs ==
    {[performed |-> p, search_results |-> sr, enriched_description |-> e, search_timestamp |-> Now] :
        p \in BOOLEAN,
        sr \in {None} \cup {Some([success |-> TRUE, results |-> items]) : items \in SearchItemLists},
        e \in {None, Some(LongDescription)}}

\* ContentFetchEnricher.enrich_with_content_fetch(web_search_info) called on its own
CallEnrichWithContentFetch ==
    /\ pc = "idle"
    /\ \E w \in ContentInputs, l \in BOOLEAN : web_search' = Some(w) /\ loop_running' = l
    /\ NoCallState("enrich_with_content_fetch", "content")
    /\ ocr_text' = <<>> /\ museum_name' = <<>>
    /\ basic_info' = None /\ metadata' = None
    /\ content_fetch' = None /\ video_script' = None
    /\ UNCHANGED stats

ContentFetched(env, r) ==
    /\ invoked' = IF entry = Pipeline /\ ~orchestrator_fetches(web_search[1])
                  THEN invoked
                  ELSE Append(invoked, "enrich_with_content_fetch")
    /\ server' = used_server(env.server, r.fetch_log)
    /\ content_fetch' = r.value
    /\ raised' = r.raised
    /\ fetch_log' = fetch_log \o r.fetch_log
    /\ stats' = stats_after(r.raised)
    /\ pc' = after_stage(r.raised, "script")

ContentFetchIn(env) ==
    ContentFetched(env, IF entry = Pipeline THEN orchestrator_content_stage(web_search[1], env)
                        ELSE enrich_with_content_fetch(web_search[1], env))

ContentFetch ==
    /\ pc = "content"
    /\ \E sv \in Servers :
          ContentFetchIn([fetch_service |-> TRUE, server |-> sv, loop_running |-> loop_running])
    /\ UNCHANGED <<entry, loop_running, ocr_text, museum_name, ai, search, basic_info, metadata,
                   web_search, video_script, ai_calls, search_calls, search_attempts, prompt,
                   classifier, aside>>

\* the descriptions the slices of generate_video_script's argument carry
ScriptDescriptions == {None, Some(<<>>), Some(LongDescription)}

\* the content-enriched descriptions the argument carries
ContentDescriptions == {None, Some(<<>>), Some(PageText(UrlMuseum))}

\* VideoScriptGenerator.generate_video_script(artwork_info) called on its own
CallGenerateVideoScript ==
    /\ pc = "idle"
    /\ \E b \in WebInputs, w \in ScriptDescriptions, c \in ContentDescriptions :
          /\ basic_info' = Some(b)
          /\ web_search' = WebSearchInfo([enriched_description |-> w]).value
          /\ content_fetch' = ContentFetchInfo([content_enriched_description |-> c]).value
    /\ metadata' = Some([confidence |-> 90, extraction_method |-> "gemini_ai_success",
                         error_reason |-> "", success |-> TRUE])
    /\ NoCallState("generate_video_script", "script")
    /\ loop_running' = FALSE
    /\ ocr_text' = <<>> /\ museum_name' = <<>>
    /\ video_script' = None
    /\ UNCHANGED stats

Scripted(a, r) ==
    /\ ai' = IF r.ai_calls > 0 THEN a ELSE NoAI
    /\ video_script' = r.video_script
    /\ raised' = r.raised
    /\ ai_calls' = ai_calls + r.ai_calls
    /\ stats' = IF entry = Pipeline /\ r.raised = "None"
                THEN [stats EXCEPT !.successful_extractions = @ + 1]
                ELSE stats_after(r.raised)
    /\ invoked' = IF r.ai_calls > 0 THEN Append(invoked, "generate_video_script") ELSE invoked
    /\ prompt' = IF r.ai_calls > 0
                 THEN Some(prompt_description([basic_info |-> basic_info[1],
                                               web_search |-> web_search[1],
                                               content_fetch |-> content_fetch[1]]))
                 ELSE None
    /\ pc' = IF r.raised /= "None" THEN "raised" ELSE "returned"

Script ==
    /\ pc = "script"
    /\ \E a \in ScriptOutcomes :
          Scripted(a, IF entry = Pipeline
                      THEN orchestrator_script_stage(basic_info[1], metadata[1], web_search[1],
                                                     content_fetch[1], a)
                      ELSE [raised |-> "None", ai_calls |-> 1,
                            video_script |-> Some(generate_video_script(
                                [basic_info |-> basic_info[1], metadata |-> metadata[1],
                                 web_search |-> web_search[1],
                                 content_fetch |-> content_fetch[1]], a))])
    /\ UNCHANGED <<entry, loop_running, ocr_text, museum_name, search, server, basic_info,
                   metadata, web_search, content_fetch, search_calls, search_attempts, fetch_log,
                   classifier, aside>>

\* the caller takes the result or the exception; the services keep nothing
\* of the call but the orchestrator's stats
Return ==
    /\ pc \in {"returned", "raised"}
    /\ NoCallState("none", "idle")
    /\ loop_running' = FALSE
    /\ ocr_text' = <<>> /\ museum_name' = <<>>
    /\ basic_info' = None /\ metadata' = None /\ web_search' = None
    /\ content_fetch' = None /\ video_script' = None
    /\ UNCHANGED stats

Next ==
    \/ CallExtractAndEnrich
    \/ CallExtractBasicInfo
    \/ CallEnrichWithWebSearch
    \/ CallEnrichWithContentFetch
    \/ CallGenerateVideoScript
    \/ Extract
    \/ WebSearch
    \/ ContentFetch
    \/ Script
    \/ Return

Spec == Init /\ [][Next]_vars

\* the places of a call
Places == {"idle", "extract", "web", "content", "script", "waiting", "returned", "raised"}

\* The call leaves the stage at place.  A step of Next that leaves "extract"
\* is a step of Extract, and Extract is enabled whenever pc = "extract"; the
\* same holds of the other stages and their actions.
StageEnds(place) == pc = place /\ pc' \in Places \ {place}

\* A stage that was entered runs to its end: the caller is a blocking one
\* (asyncio.run, or a plain call of a service method), and every remote call
\* of the stage returns or times out, so the stage's code reaches its next
\* statement.  Nothing obliges a caller to call, or to take up the result,
\* and nothing is assumed of a caller that waits in a bridge.
StagesRun ==
    /\ WF_pc(StageEnds("extract"))
    /\ WF_pc(StageEnds("web"))
    /\ WF_pc(StageEnds("content"))
    /\ WF_pc(StageEnds("script"))

LiveSpec == Spec /\ StagesRun

(***************************************************************************)
(* The classifier: one HybridAnalyzer at a time, built with any threshold  *)
(* and any outcome of its connection test, receiving analyze_text calls.   *)
(***************************************************************************)
\* how many analyze_text calls one HybridAnalyzer receives
MaxAnalyses == 2

PipelineIdle ==
    UNCHANGED <<entry, pc, loop_running, ocr_text, museum_name, ai, search, server, basic_info,
                metadata, web_search, content_fetch, video_script, raised, ai_calls,
                search_calls, search_attempts, fetch_log, stats, invoked, prompt>>

\* HybridAnalyzer(gemini_credentials_path, confidence_threshold)
NewHybridAnalyzer ==
    /\ \E c \in Connections, th \in Thresholds : analyzer' = HybridAnalyzer(c, th)
    /\ analysis' = NoAnalysis
    /\ history' = NoHistory
    /\ PipelineIdle
    /\ UNCHANGED aside

\* what a caller compares of two results
Verdict(result) ==
    [text_type |-> result.text_type, confidence |-> result.confidence,
     is_description |-> result.is_description]

Analyzed(text, outcome, r) ==
    /\ analyzer' = [analyzer EXCEPT !.stats = r.stats]
    /\ analysis' = [text |-> text, outcome |-> IF r.model_calls > 0 THEN outcome ELSE NoModelCall,
                    result |-> r.result, ai_calls |-> r.ai_calls,
                    model_calls |-> r.model_calls, returned |-> TRUE]
    /\ history' = [history EXCEPT ![text] = @ \cup {Verdict(r.result)}]

\* the answers of the Vertex model that matter to analyze_text(text): all of
\* them when the call reaches the model, none when it does not
OutcomesFor(text) ==
    IF analyze_text(text, analyzer, NoModelCall).model_calls > 0 THEN ModelOutcomes
    ELSE {NoModelCall}

\* analyzer.analyze_text(text)
AnalyzeText ==
    /\ analyzer.stats.total_analyzed < MaxAnalyses
    /\ \E t \in ClassifyTexts :
          \E o \in OutcomesFor(t) : Analyzed(t, o, analyze_text(t, analyzer, o))
    /\ PipelineIdle
    /\ UNCHANGED aside

ClassifierNext ==
    \/ NewHybridAnalyzer
    \/ AnalyzeText

ClassifierSpec == Init /\ [][ClassifierNext]_vars

(***************************************************************************)
(* FetchService.fetch_urls followed task by task.  asyncio.gather makes    *)
(* one task per valid URL; the loop runs each task, in the order of the    *)
(* list, up to its first await, and the tasks then end in any order.       *)
(***************************************************************************)
\* the max_concurrent argument of fetch_urls, at both of its call sites
MaxConcurrent == 3

UrlNews == <<"h", "t", "t", "p", ":", "/", "/", "n", "e", "w", "s", ".", "k", "r">>

UrlGallery == <<"h", "t", "t", "p", "s", ":", "/", "/", "g", "a", "l", "l", "e", "r", "y", ".", "c", "o", "m">>

\* the "results" of the searches whose URLs are fetched: brave_service is
\* called with count=5
FanOutItemLists ==
    SearchItemLists \cup
    {<<StrItem(UrlBlog), StrItem(UrlMuseum), StrItem(UrlPlain), StrItem(UrlNews)>>,
     <<DictItem(UrlNews), DictItem(UrlBlog), DictItem(UrlGallery), DictItem(UrlPlain),
       DictItem(UrlMuseum)>>}

FanOutTargets == FetchTargets \cup {UrlNews, UrlGallery}

FanOutServers ==
    {[u \in FanOutTargets |-> FetchScript(b, u)] : b \in {"dict", "tool_error"}}
    \cup {[u \in FanOutTargets |-> FetchScript(IF u = UrlBlog THEN "conn_error_once" ELSE "list", u)],
          [u \in FanOutTargets |-> FetchScript(IF u = UrlMuseum THEN "dict" ELSE "tool_error", u)]}

\* the urls argument, by the caller of fetch_urls
fetch_urls_argument(caller, items) ==
    IF caller = "enrich_with_web_search" THEN search_result_urls(items)
    ELSE prioritize_artwork_urls(result_urls(items), MaxFetchUrls)

\* fetch_urls up to the await of gather: no task when no URL is valid
fetch_urls_entered(caller, valid_urls, sv) ==
    [state |-> IF valid_urls = <<>> THEN "returned" ELSE "gathering",
     caller |-> caller, server |-> sv, valid_urls |-> valid_urls, started |-> 0,
     in_flight |-> {}, done |-> [i \in 1..Len(valid_urls) |-> None], completed |-> <<>>,
     results |-> <<>>]

CallFetchUrls ==
    /\ fanout.state = "idle"
    /\ \E caller \in {"enrich_with_web_search", "fetch_artwork_urls"},
          items \in FanOutItemLists, sv \in FanOutServers :
          fanout' = fetch_urls_entered(caller, filter_urls(fetch_urls_argument(caller, items)), sv)
    /\ PipelineIdle
    /\ UNCHANGED <<classifier, nearby, polling>>

\* the loop runs the next task up to its first await
TaskStart ==
    /\ fanout.state = "gathering"
    /\ fanout.started < Len(fanout.valid_urls)
    /\ fanout' = [fanout EXCEPT !.started = @ + 1, !.in_flight = @ \cup {fanout.started + 1}]
    /\ PipelineIdle
    /\ UNCHANGED <<classifier, nearby, polling>>

\* the task of valid_urls[i] returns its dict
task_ended(f, i) ==
    [f EXCEPT !.in_flight = @ \ {i},
              !.done[i] = Some(fetch_url_mcp_async(f.valid_urls[i], f.server[f.valid_urls[i]]).result),
              !.completed = Append(@, i)]

TaskEnd ==
    /\ fanout.state = "gathering"
    /\ fanout.started = Len(fanout.valid_urls)
    /\ \E i \in fanout.in_flight : fanout' = task_ended(fanout, i)
    /\ PipelineIdle
    /\ UNCHANGED <<classifier, nearby, polling>>

\* a gather that hands the results over in the order the tasks ended
raw_results_as_completed(done, completed) ==
    [k \in 1..Len(done) |-> [result |-> done[completed[k]][1], attempts |-> 1]]

\* raw_results = await asyncio.gather(*tasks, return_exceptions=True): the
\* results in the order of the tasks
raw_results(done, completed) ==
    [k \in 1..Len(done) |-> [result |-> done[k][1], attempts |-> 1]]

\* every task ended: the results zipped with valid_urls and returned
Gathered ==
    /\ fanout.state = "gathering"
    /\ fanout.started = Len(fanout.valid_urls)
    /\ fanout.in_flight = {}
    /\ fanout' = [fanout EXCEPT
                     !.state = "returned",
                     !.results = gathered(fanout.valid_urls,
                                          raw_results(fanout.done, fanout.completed)).results]
    /\ PipelineIdle
    /\ UNCHANGED <<classifier, nearby, polling>>

FetchUrlsReturn ==
    /\ fanout.state = "returned"
    /\ fanout' = NoFanOut
    /\ PipelineIdle
    /\ UNCHANGED <<classifier, nearby, polling>>

FanOutNext ==
    \/ CallFetchUrls
    \/ TaskStart
    \/ TaskEnd
    \/ Gathered
    \/ FetchUrlsReturn

FanOutSpec == Init /\ [][FanOutNext]_vars

(***************************************************************************)
(* place: NearbyMuseumView.post and maps_mcp.process_mcp_response.         *)
(* Coordinates are in 1/10000 of a degree, distances in 1/100 of a metre.  *)
(***************************************************************************)
\* views.MAX_RESULTS and the default of max_results
MaxResults == 4

UserLat == 375665

UserLon == 1269780

\* calculate_distance(lat1, lon1, lat2, lon2): the haversine formula of
\* maps_mcp.py:30-60, rounded to 2 decimals, for the coordinates used here
calculate_distance(lat1, lon1, lat2, lon2) ==
    CASE <<lat1, lon1>> = <<lat2, lon2>> -> 0
      [] <<lat1, lon1, lat2, lon2>> = <<UserLat, UserLon, 375700, 1269780>> -> 38918
      [] <<lat1, lon1, lat2, lon2>> = <<UserLat, UserLon, 375630, 1269780>> -> 38918
      [] <<lat1, lon1, lat2, lon2>> = <<UserLat, UserLon, 375665, 1269900>> -> 105766
      [] <<lat1, lon1, lat2, lon2>> = <<UserLat, UserLon, 375800, 1269780>> -> 150113
      [] <<lat1, lon1, lat2, lon2>> = <<UserLat, UserLon, 375900, 1269900>> -> 281895
      [] <<lat1, lon1, lat2, lon2>> = <<UserLat, UserLon, 376000, 1270000>> -> 419929
      [] <<lat1, lon1, lat2, lon2>> = <<UserLat, UserLon, 0, 0>> -> 1317387735

\* a place of the MCP answer: form tells where its coordinates are, in a
\* "location" object, in "latitude"/"longitude" fields, or nowhere
McpPlace(name, address, form, lat, lng) ==
    [name |-> name, address |-> address, form |-> form, lat |-> lat, lng |-> lng]

has_coordinates(place) ==
    \/ place.form = "location"
    \/ place.form = "direct" /\ place.lat /= 0 /\ place.lng /= 0

processed_place(place, user_lat, user_lon) ==
    [name |-> place.name, address |-> place.address, latitude |-> place.lat,
     longitude |-> place.lng,
     distance_m |-> calculate_distance(user_lat, user_lon, place.lat, place.lng)]

\* the loop over places: the named ones with coordinates, within the radius
processed_places(places, user_lat, user_lon, radius) ==
    LET kept == SelectSeq(places, LAMBDA q : q.name /= <<>> /\ has_coordinates(q))
        all == [i \in 1..Len(kept) |-> processed_place(kept[i], user_lat, user_lon)]
    IN SelectSeq(all, LAMBDA q : q.distance_m <= radius * 100)

\* processed_places.sort(key=distance_m): a stable sort
sort_by_distance(ps) ==
    [k \in 1..Len(ps) |->
        ps[CHOOSE i \in 1..Len(ps) :
              k = 1 + Cardinality({j \in 1..Len(ps) :
                                     \/ ps[j].distance_m < ps[i].distance_m
                                     \/ ps[j].distance_m = ps[i].distance_m /\ j < i})]]

\* the rank of every place, then the first max_results of them
ranked(ps, max_results) ==
    [k \in 1..(IF Len(ps) < max_results THEN Len(ps) ELSE max_results) |->
        ps[k] @@ [rank |-> k]]

\* process_mcp_response(result, user_lat, user_lon, radius, max_results)
process_mcp_response(result, user_lat, user_lon, radius, max_results) ==
    IF result.kind \in {"no_content", "no_text"} THEN [raised |-> "None", places |-> <<>>]
    ELSE IF result.kind = "bad_json" THEN [raised |-> "MapsAPIError", places |-> <<>>]
    ELSE [raised |-> "None",
          places |-> ranked(sort_by_distance(
                                processed_places(result.places, user_lat, user_lon, radius)),
                            max_results)]

\* a call of process_mcp_response with positional arguments: the function
\* has four required parameters
call_process_mcp_response(args) ==
    IF Len(args) < 4 THEN [raised |-> "TypeError", places |-> <<>>]
    ELSE process_mcp_response(args[1], args[2], args[3], args[4],
                              IF Len(args) > 4 THEN args[5] ELSE MaxResults)

HttpResponse(status, places, error) == [status |-> status, places |-> places, error |-> error]

\* NearbyMuseumResponseSerializer(data=places, many=True).is_valid()
response_is_valid(places) == \A i \in 1..Len(places) : places[i].address /= <<>>

\* steps 4 and 5 of post, p the outcome of its call of process_mcp_response
post_processed(p) ==
    IF p.raised = "MapsAPIError" THEN HttpResponse(500, <<>>, "api_error")
    ELSE IF p.raised /= "None" THEN HttpResponse(500, <<>>, "unexpected_error")
    ELSE IF ~response_is_valid(p.places) THEN HttpResponse(500, <<>>, "validation_errors")
    ELSE HttpResponse(200, p.places, "")

\* NearbyMuseumRequestSerializer: the bounds of the fields
request_is_valid(data) ==
    /\ data.latitude >= -900000 /\ data.latitude <= 900000
    /\ data.longitude >= -1800000 /\ data.longitude <= 1800000
    /\ data.radius = None \/ (data.radius[1] >= 1 /\ data.radius[1] <= 50000)

\* validated_data: the serializer fills in its default radius
validated_radius(data) == IF data.radius = None THEN 5000 ELSE data.radius[1]

\* validate_search_params, the keyword left aside
search_params_are_valid(latitude, longitude, radius) ==
    /\ latitude >= -900000 /\ latitude <= 900000
    /\ longitude >= -1800000 /\ longitude <= 1800000
    /\ radius > 0 /\ radius <= 50000

\* NearbyMuseumView.post: data the body of the request, mcp what
\* search_nearby_museums gets from the MCP server
post(data, mcp) ==
    IF ~request_is_valid(data) THEN HttpResponse(400, <<>>, "serializer_errors")
    ELSE IF ~search_params_are_valid(data.latitude, data.longitude, validated_radius(data))
    THEN HttpResponse(400, <<>>, "ValueError")
    ELSE IF mcp.kind = "MapsConfigError" THEN HttpResponse(500, <<>>, "config_error")
    ELSE IF mcp.kind = "MapsAPIError" THEN HttpResponse(500, <<>>, "api_error")
    ELSE post_processed(call_process_mcp_response(<<mcp, MaxResults>>))

PlaceA == McpPlace(<<"A">>, <<"a">>, "location", 375700, 1269780)

PlaceB == McpPlace(<<"B">>, <<"b">>, "direct", 375665, 1269900)

PlaceC == McpPlace(<<"C">>, <<"c">>, "location", 375630, 1269780)

PlaceD == McpPlace(<<"D">>, <<"d">>, "direct", 375800, 1269780)

PlaceE == McpPlace(<<"E">>, <<"e">>, "location", 375900, 1269900)

PlaceF == McpPlace(<<"F">>, <<"f">>, "location", 376000, 1270000)

\* a place with no name, one with no coordinates, one whose location has
\* no lat and lng, one whose latitude field is 0, one with a blank address
PlaceNameless == McpPlace(<<>>, <<"g">>, "location", 375700, 1269780)

PlaceNowhere == McpPlace(<<"H">>, <<"h">>, "none", 0, 0)

PlaceOrigin == McpPlace(<<"I">>, <<"i">>, "location", 0, 0)

PlaceZero == McpPlace(<<"J">>, <<"j">>, "direct", 0, 1269780)

PlaceHere == McpPlace(<<"K">>, <<>>, "location", UserLat, UserLon)

PlacePool ==
    {PlaceA, PlaceB, PlaceC, PlaceD, PlaceE, PlaceF,
     PlaceNameless, PlaceNowhere, PlaceOrigin, PlaceZero, PlaceHere}

PlaceLists ==
    {<<>>} \cup {<<q>> : q \in PlacePool}
    \cup {<<q, r>> : q \in PlacePool, r \in PlacePool}
    \cup {<<PlaceF, PlaceE, PlaceD, PlaceB, PlaceA, PlaceC>>,
           <<PlaceD, PlaceNameless, PlaceB, PlaceNowhere, PlaceA, PlaceOrigin,
             PlaceE, PlaceC>>}

\* what the MCP server answers: no content, content with no text, text
\* that is no JSON, or places ("places" missing is the empty list)
McpResults ==
    {[kind |-> k, places |-> <<>>] : k \in {"no_content", "no_text", "bad_json"}}
    \cup {[kind |-> "places", places |-> ps] : ps \in PlaceLists}

McpOutcomes ==
    McpResults
    \cup {[kind |-> k, places |-> <<>>] : k \in {"MapsConfigError", "MapsAPIError"}}

RequestData ==
    {[latitude |-> lat, longitude |-> UserLon, radius |-> r] :
        lat \in {UserLat, 910000}, r \in {None, Some(1000), Some(3000), Some(0)}}

SearchRadii == {1000, 3000, 5000}

\* a POST of the nearby-museum endpoint, answered
Post ==
    /\ nearby.state = "idle"
    /\ \E data \in RequestData, mcp \in McpOutcomes :
          nearby' = [state |-> "responded", entry |-> "post", request |-> data,
                     result |-> mcp,
                     response |-> post(data, IF request_is_valid(data) THEN mcp
                                             ELSE [kind |-> "no_content", places |-> <<>>])]
    /\ PipelineIdle
    /\ UNCHANGED <<classifier, fanout, polling>>

\* process_mcp_response called on its own with the user's position
CallProcessMcpResponse ==
    /\ nearby.state = "idle"
    /\ \E result \in McpResults, radius \in SearchRadii,
          rest \in {<<>>, <<2>>} :
          LET p == call_process_mcp_response(<<result, UserLat, UserLon, radius>> \o rest)
          IN nearby' = [state |-> "responded", entry |-> "process_mcp_response",
                        request |-> [latitude |-> UserLat, longitude |-> UserLon,
                                     radius |-> Some(radius)],
                        result |-> result,
                        response |-> [status |-> 0, places |-> p.places,
                                      error |-> p.raised]]
    /\ PipelineIdle
    /\ UNCHANGED <<classifier, fanout, polling>>

\* the caller has its answer
NearbyReturn ==
    /\ nearby.state = "responded"
    /\ nearby' = NoNearby
    /\ PipelineIdle
    /\ UNCHANGED <<classifier, fanout, polling>>

PlaceNext == Post \/ CallProcessMcpResponse \/ NearbyReturn

PlaceSpec == Init /\ [][PlaceNext]_vars

(***************************************************************************)
(* VisionStoryService.wait_for_video_completion.  Times are in seconds;    *)
(* elapsed is time.time() - start_time.  The loop is followed test by      *)
(* test and iteration by iteration.                                        *)
(***************************************************************************)
\* the largest max_wait_time a call is given
MaxWaitTime == 30

WaitTimes == {0, 20, MaxWaitTime}

PollIntervals == {5, 10}

\* how long one get_video_status takes: requests.get has timeout=10
LookupSeconds == {0, 5, 10}

VideoStatuses ==
    {"created", "completed", "failed", "pending", "creating", "processing", "queued"}

\* what get_video_status is answered: no 200, a body without "data", an
\* exception of requests; or "data", which is an empty object, an object
\* with or without "status" and "video_url", or no object at all
StatusAnswers ==
    {[kind |-> k, status |-> None, video_url |-> FALSE] :
        k \in {"not_200", "no_data", "raised", "empty_data", "data_not_dict"}}
    \cup {[kind |-> "data", status |-> st, video_url |-> u] :
            st \in {None} \cup {Some(x) : x \in VideoStatuses}, u \in BOOLEAN}

\* get_video_status: the data of the answer, or None
get_video_status(answer) ==
    IF answer.kind \in {"not_200", "no_data", "raised"} THEN None ELSE Some(answer)

\* status_info is truthy: not None and not an empty object
status_info_truthy(status_info) ==
    status_info /= None /\ status_info[1].kind /= "empty_data"

\* status_info.get("status", "unknown"); .get raises when data is no object
status_of(status_info) ==
    IF status_info[1].kind = "data_not_dict" THEN [raised |-> TRUE, status |-> "unknown"]
    ELSE IF status_info[1].status = None THEN [raised |-> FALSE, status |-> "unknown"]
    ELSE [raised |-> FALSE, status |-> status_info[1].status[1]]

\* a loop that takes a video in the making for a finished one
returns_status_info_early(status) ==
    status \in {"created", "completed", "failed", "processing"}

\* the branches of the loop that return status_info
returns_status_info(status) == status \in {"created", "completed", "failed"}

\* one iteration of the loop: whether it returns status_info or sleeps
iteration_returns(status_info) ==
    /\ status_info_truthy(status_info)
    /\ ~status_of(status_info).raised
    /\ returns_status_info(status_of(status_info).status)

\* service.wait_for_video_completion(video_id, max_wait_time, poll_interval)
CallWaitForVideoCompletion ==
    /\ polling.state = "idle"
    /\ \E w \in WaitTimes, p \in PollIntervals :
          polling' = [NoPolling EXCEPT !.state = "test", !.max_wait_time = w,
                                       !.poll_interval = p]
    /\ PipelineIdle
    /\ UNCHANGED <<classifier, fanout, nearby>>

\* while time.time() - start_time < max_wait_time, and the return None
\* after the loop
LoopTest ==
    /\ polling.state = "test"
    /\ polling' = IF polling.elapsed < polling.max_wait_time
                  THEN [polling EXCEPT !.state = "poll"]
                  ELSE [polling EXCEPT !.state = "done", !.returned = None]
    /\ PipelineIdle
    /\ UNCHANGED <<classifier, fanout, nearby>>

\* the body of the loop: the lookup, then a return or time.sleep(poll_interval)
Poll ==
    /\ polling.state = "poll"
    /\ \E answer \in StatusAnswers, d \in LookupSeconds :
          LET status_info == get_video_status(answer)
          IN polling' =
                IF iteration_returns(status_info)
                THEN [polling EXCEPT !.state = "done", !.elapsed = @ + d,
                                     !.polls = @ + 1, !.status_info = status_info,
                                     !.returned = status_info]
                ELSE [polling EXCEPT !.state = "test",
                                     !.elapsed = @ + d + polling.poll_interval,
                                     !.polls = @ + 1, !.status_info = status_info]
    /\ PipelineIdle
    /\ UNCHANGED <<classifier, fanout, nearby>>

\* the caller has its answer
PollingReturn ==
    /\ polling.state = "done"
    /\ polling' = NoPolling
    /\ PipelineIdle
    /\ UNCHANGED <<classifier, fanout, nearby>>

PollingNext == CallWaitForVideoCompletion \/ LoopTest \/ Poll \/ PollingReturn

\* the loop runs in the caller's thread: requests.get ends within its
\* timeout and time.sleep ends, so a test or an iteration that can run does
PollingSpec ==
    Init /\ [][PollingNext]_vars /\ WF_vars(LoopTest) /\ WF_vars(Poll)

(***************************************************************************)
(* The claims.  Their preconditions are stated on the inputs and on what   *)
(* the collaborators answered, apart from the operators of the model.      *)
(***************************************************************************)
TitleNotFound == "ArtworkTitleNotFoundError"

\* the extraction stage has run and nothing ran after it
ExtractDone ==
    \/ entry = "extract_basic_info" /\ pc \in {"returned", "raised"}
    \/ entry = Pipeline /\ pc = "web"
    \/ entry = Pipeline /\ pc = "raised" /\ basic_info = None

NoRemoteCall ==
    ai_calls = 0 /\ search_calls = 0 /\ search_attempts = 0 /\ fetch_log = <<>>

\* C1: every extract_and_enrich call returns a complete result (all five
\* slices present) or raises ArtworkTitleNotFoundError; no other exception
\* reaches the caller.
C1_OnlyTitleNotFoundReachesCaller ==
    entry = Pipeline =>
        /\ pc = "raised" => raised = TitleNotFound
        /\ pc = "returned" => /\ basic_info /= None /\ metadata /= None /\ web_search /= None
                              /\ content_fetch /= None /\ video_script /= None

BlankText(t) == \A i \in 1..Len(t) : t[i] \in Whitespace

\* C2: for an empty or whitespace-only OCR text the pipeline, and extract on
\* its own, raise ArtworkTitleNotFoundError with no call issued to the AI,
\* the search or the fetch collaborator.
C2_BlankOcrFailsBeforeAnyCall ==
    (entry \in {Pipeline, "extract_basic_info"} /\ pc /= "extract" /\ BlankText(ocr_text)) =>
        (pc = "raised" /\ raised = TitleNotFound /\ NoRemoteCall)

C2_WhitespaceOcrRejected ==
    /\ entry = Pipeline /\ pc = "raised"
    /\ ocr_text = <<" ", "\n", "\t">>
    /\ stats.failed_extractions = 1

ValidTitle(t) ==
    /\ t /= <<>>
    /\ t /= DefaultTitle
    /\ \A d \in invalid_titles : lower(strip(t)) /= lower(d)
    /\ Len(strip(t)) >= 2
    /\ \E i \in 1..Len(strip(t)) : strip(t)[i] \notin Digits

\* C3: every record extract returns, on the AI path and on both fallback
\* paths, has a title that is non-empty, not the sentinel, not on the
\* denylist (case-insensitively), of stripped length at least 2 and not
\* purely numeric.
C3_ReturnedTitleIsValid ==
    (ExtractDone /\ basic_info /= None) => ValidTitle(basic_info[1].title)

C3_FallbackAfterErrorReturned ==
    /\ entry = "extract_basic_info" /\ pc = "returned"
    /\ ai.kind = "service_raise"
    /\ metadata[1].error_reason = "gemini_error"
    /\ basic_info[1].title = MonaLisa

\* the first non-blank line of the text is short, carries no sentence
\* punctuation and is a valid title
RecognizableTitle(t) ==
    /\ ocr_lines(t) /= <<>>
    /\ Len(ocr_lines(t)[1]) <= MaxTitleLineLen
    /\ \A i \in 1..Len(ocr_lines(t)[1]) : ocr_lines(t)[1][i] \notin {".", "!", "?"}
    /\ ValidTitle(ocr_lines(t)[1])

\* C4: for an OCR text whose first non-blank line is a recognizable title,
\* extract returns a record with a non-sentinel title whatever the AI call
\* does; ArtworkTitleNotFoundError only when neither path yields a title.
C4_RecognizableTitleAlwaysExtracted ==
    (ExtractDone /\ RecognizableTitle(ocr_text)) =>
        (basic_info /= None /\ basic_info[1].title /= DefaultTitle)

\* the AI call failed, returned nothing, or returned text that is no JSON
\* object once its fences are taken off
AiUnusable(a) ==
    \/ a.kind \in {"service_raise", "model_raise", "no_candidates"}
    \/ /\ a.kind = "text"
       /\ \/ a.text.body.kind \in {"prose", "other"}
          \/ a.text.fence /= "none" /\ ~a.text.closed

\* C5: when the AI call fails, returns nothing or returns unparsable text,
\* extract runs the rule fallback: it returns a record whose metadata marks
\* the fallback method or raises ArtworkTitleNotFoundError, nothing else.
C5_UnusableAiFallsBack ==
    (ExtractDone /\ ai_calls = 1 /\ AiUnusable(ai)) =>
        /\ raised \in {"None", TitleNotFound}
        /\ basic_info /= None => /\ metadata[1].extraction_method = "fallback_rules"
                                 /\ ~metadata[1].success

C5_ProseReplyFellBack ==
    /\ entry = "extract_basic_info" /\ pc = "returned"
    /\ ai.kind = "text" /\ ai.text.body.kind = "prose" /\ ai.text.body.s /= <<>>
    /\ metadata[1].extraction_method = "fallback_rules"
    /\ metadata[1].error_reason = "gemini_response_failed"

WebCallEnded == entry = "enrich_with_web_search" /\ pc \in {"returned", "raised"}

\* non-sentinel and of stripped length at least 10
ValidDescription(d) == strip(d) /= DefaultDescription /\ Len(strip(d)) >= MinDescriptionLen

\* C6: when the record's description is valid, enrich_with_web_search
\* issues no search call and no fetch call and returns a WebSearchInfo with
\* performed = false whose description comes from the existing description
\* (the AI's clean-up of it, or the description itself).
C6_ValidDescriptionSkipsSearch ==
    (WebCallEnded /\ ValidDescription(basic_info[1].description)) =>
        /\ search_calls = 0 /\ search_attempts = 0 /\ fetch_log = <<>>
        /\ pc = "returned"
        /\ web_search /= None
        /\ ~web_search[1].performed
        /\ web_search[1].enriched_description
              \in {Some(basic_info[1].description), Some(ai.text.body.s)}

\* C7: no exception raised inside enrich_with_web_search leaves it: the
\* call that met one returns a WebSearchInfo with performed = false.
C7_SearchEnricherNeverRaises ==
    entry = "enrich_with_web_search" =>
        /\ pc /= "raised"
        /\ (pc = "returned" /\ search_calls = 1 /\ search[1].kind /= "results") =>
               (web_search /= None /\ ~web_search[1].performed)

ContentCallEnded == entry = "enrich_with_content_fetch" /\ pc \in {"returned", "raised"}

\* the results of the fetches the call issued, <<>> when it kept none
FetchResultsKept ==
    IF content_fetch /= None /\ content_fetch[1].fetch_results /= None
    THEN content_fetch[1].fetch_results[1] ELSE <<>>

SomeFetchSucceeded == \E i \in 1..Len(FetchResultsKept) : FetchResultsKept[i].success

\* C8: when at least one fetch succeeds, enrich_with_content_fetch returns
\* performed = true and the body of every successful fetch is part of the
\* enriched description.
C8_EverySuccessfulBodyReflected ==
    (ContentCallEnded /\ SomeFetchSucceeded) =>
        /\ pc = "returned"
        /\ content_fetch[1].performed
        /\ content_fetch[1].content_enriched_description /= None
        /\ \A i \in 1..Len(FetchResultsKept) :
              FetchResultsKept[i].success =>
                  contains(content_fetch[1].content_enriched_description[1],
                           FetchResultsKept[i].content)

\* the call was given a performed search with URLs to fetch
FetchAttempted ==
    /\ web_search /= None /\ web_search[1].performed
    /\ web_search[1].search_results /= None
    /\ web_search[1].search_results[1].results /= <<>>

\* C9: when the fetching was attempted and every fetch failed, by a failed
\* result or by an exception, enrich_with_content_fetch raises nothing and
\* returns performed = true with no enriched description.
C9_AllFetchesFailedStillPerformed ==
    (ContentCallEnded /\ FetchAttempted /\ ~SomeFetchSucceeded) =>
        /\ pc = "returned"
        /\ content_fetch /= None
        /\ content_fetch[1].performed
        /\ content_fetch[1].content_enriched_description = None

\* the fetch server answers a connection error to the first request for
\* url and the page to the second
ConnErrorThenSuccess(url) ==
    server[url][1].kind = "conn_error" /\ server[url][2].kind \in {"content_list", "content_dict"}

\* C10: a fetch whose first attempt meets a connection error and whose
\* second would succeed is tried again: two attempts, that is one retry,
\* and a successful result.
C10_TransientFetchErrorRetriedOnce ==
    ContentCallEnded =>
        \A i \in 1..Len(fetch_log) :
            ConnErrorThenSuccess(fetch_log[i].url) =>
                /\ fetch_log[i].attempts = 2
                /\ \E j \in 1..Len(FetchResultsKept) :
                       FetchResultsKept[j].url = fetch_log[i].url /\ FetchResultsKept[j].success

\* the fetch server rejects every request for url
ToolRejects(url) == server[url][1].kind = "tool_error"

\* C11: a fetch the server rejects with a tool-invocation error is sent
\* once: the log holds one entry for the URL, of one attempt, and the call
\* that kept its results reports the URL as failed by the tool.
C11_ToolErrorAttemptedOnce ==
    \A i \in 1..Len(fetch_log) :
        ToolRejects(fetch_log[i].url) =>
            /\ fetch_log[i].attempts = 1
            /\ \A j \in 1..Len(fetch_log) : fetch_log[j].url = fetch_log[i].url => j = i
            /\ (ContentCallEnded /\ content_fetch[1].performed) =>
                   \E j \in 1..Len(FetchResultsKept) :
                       /\ FetchResultsKept[j].url = fetch_log[i].url
                       /\ ~FetchResultsKept[j].success
                       /\ FetchResultsKept[j].error = "fetch_txt_tool_failed"

C11_RejectedBesideFetched ==
    /\ ContentCallEnded /\ pc = "returned" /\ content_fetch[1].performed
    /\ \E i, j \in 1..Len(fetch_log) :
          /\ ToolRejects(fetch_log[i].url) /\ fetch_log[i].attempts = 1
          /\ ~ToolRejects(fetch_log[j].url)
    /\ SomeFetchSucceeded
    /\ \E j \in 1..Len(FetchResultsKept) : FetchResultsKept[j].error = "fetch_txt_tool_failed"
ScriptCallEnded == entry = "generate_video_script" /\ pc \in {"returned", "raised"}

\* the AI call gave no text: it raised, or returned nothing or ""
AiGaveNothing(a) ==
    \/ a.kind \in {"service_raise", "model_raise", "no_candidates"}
    \/ a.kind = "text" /\ a.text.fence = "none" /\ strip(a.text.body.s) = <<>>

\* C12: generate_video_script returns, for every record, a script whose
\* content is not empty; when the AI call raised or returned nothing the
\* script is the template around the record's artist, year and title.
C12_ScriptAlwaysPlayable ==
    ScriptCallEnded =>
        /\ pc = "returned"
        /\ video_script[1].script_content /= <<>>
        /\ (ai_calls = 1 /\ AiGaveNothing(ai)) =>
               /\ video_script[1].generation_method = "fallback_template"
               /\ video_script[1].script_content =
                      TemplateOpen \o basic_info[1].artist \o TemplateBy \o basic_info[1].year
                      \o TemplateMadeIn \o basic_info[1].title \o TemplateClose

\* len(content) / 5, kept within [10, 120]
ClampedSeconds(content) ==
    LET n == Len(content) \div 5
    IN IF n < 10 THEN 10 ELSE IF n > 120 THEN 120 ELSE n

\* C13: every VideoScriptInfo generate_video_script returns, by the AI, by
\* the template or after an error, has a script_length within [10, 120]
\* that is len(script_content) / 5 clamped to that range.
C13_ScriptLengthClamped ==
    (ScriptCallEnded /\ video_script /= None) =>
        /\ video_script[1].script_length \in 10..120
        /\ video_script[1].script_length = ClampedSeconds(video_script[1].script_content)
\* the confidence the rules give to the text of the last call
RuleConfidence == script_analyzer[analysis.text].confidence

AiSaysYes(o) == o.answer \in {<<"Y", "E", "S">>, <<" ", "y", "e", "s", ".", "\n">>}

\* C15: when analyze_text escalates, an answer of the model gives a result
\* with the model's yes/no, confidence 0.95 and the text_type of the rules;
\* a failed model call gives the rule result unchanged, marked as a
\* fallback in its metadata.
C15_EscalationKeepsRuleResultOnFailure ==
    (analysis.returned /\ analysis.ai_calls = 1) =>
        /\ analysis.outcome.kind = "answer" =>
               /\ analysis.result.is_description = AiSaysYes(analysis.outcome)
               /\ analysis.result.confidence = 95
               /\ analysis.result.text_type = script_analyzer[analysis.text].text_type
        /\ analysis.outcome.kind = "raise" =>
               /\ Verdict(analysis.result) = Verdict(script_analyzer[analysis.text])
               /\ analysis.result.metadata.source = "rule_based_fallback"
\* the stages of extract_and_enrich, in the order of its body
StageOrder ==
    <<"extract_basic_info", "enrich_with_web_search", "enrich_with_content_fetch",
      "generate_video_script">>

StagePlace(name) == CHOOSE i \in 1..Len(StageOrder) : StageOrder[i] = name

\* C16: in a run of extract_and_enrich the stages are invoked in the order
\* extract, search, content, script, each at most once and each only with
\* the output of the stage before it at hand; ArtworkTitleNotFoundError
\* reaches the caller only when no stage after the extraction was invoked.
C16_StagesInOrder ==
    entry = Pipeline =>
        /\ \A i, j \in 1..Len(invoked) : i < j => StagePlace(invoked[i]) < StagePlace(invoked[j])
        /\ pc = "web" => basic_info /= None /\ invoked = <<"extract_basic_info">>
        /\ pc = "content" => web_search /= None /\ invoked[Len(invoked)] = "enrich_with_web_search"
        /\ pc = "script" => content_fetch /= None
        /\ raised = TitleNotFound => invoked = <<"extract_basic_info">>

\* a run that went through the extraction and then through the search stage
C16_SearchAfterExtraction ==
    /\ entry = Pipeline
    /\ invoked = <<"extract_basic_info", "enrich_with_web_search">>
    /\ basic_info /= None

\* a run the extraction ended with ArtworkTitleNotFoundError
C16_TitleNotFoundAtExtraction ==
    entry = Pipeline /\ pc = "raised" /\ raised = TitleNotFound

C18_NotPerformedOnlyWhenSkipped ==
    /\ (WebCallEnded /\ web_search /= None /\ ~web_search[1].performed) => search_calls = 0
    /\ (ContentCallEnded /\ content_fetch /= None /\ ~content_fetch[1].performed) =>
           ~FetchAttempted

\* C19: enrich_with_content_fetch issues a fetch, or returns performed =
\* true, only when it was given a performed search with at least one URL;
\* given anything else it issues no fetch and returns performed = false.
C19_FetchOnlyAfterSearchWithUrls ==
    ContentCallEnded =>
        IF FetchAttempted THEN TRUE
        ELSE /\ fetch_log = <<>>
             /\ pc = "returned"
             /\ content_fetch /= None
             /\ ~content_fetch[1].performed

\* how many times the call invoked the method
TimesInvoked(method) == Cardinality({i \in 1..Len(invoked) : invoked[i] = method})

\* C20: a run of extract_and_enrich whose extraction returned a record
\* invokes enrich_with_web_search once and enrich_with_content_fetch once
\* before it ends, whatever the stages then decide to skip.
C20_BothEnrichersInvokedOnce ==
    (entry = Pipeline /\ pc \in {"returned", "raised"} /\ basic_info /= None) =>
        /\ TimesInvoked("enrich_with_web_search") = 1
        /\ TimesInvoked("enrich_with_content_fetch") = 1

\* the distinct valid URLs among the candidates the call was given
CandidateUrls == filter_urls(result_urls(web_search[1].search_results[1].results))

\* C21: enrich_with_content_fetch never fetches one normalised URL twice,
\* never issues more than MaxFetchUrls fetches, and given at least
\* MaxFetchUrls distinct valid candidates it fetches exactly MaxFetchUrls
\* distinct URLs.
C21_FetchesThreeDistinctUrls ==
    (ContentCallEnded /\ FetchAttempted) =>
        /\ \A i, j \in 1..Len(fetch_log) : fetch_log[i].url = fetch_log[j].url => i = j
        /\ Len(fetch_log) <= MaxFetchUrls
        /\ Len(CandidateUrls) >= MaxFetchUrls => Len(fetch_log) = MaxFetchUrls

\* the class of a URL: 4 an official museum domain, 3 a country-code
\* domain, 2 told apart by its https scheme only, 1 a news or blog domain,
\* 0 anything else
UrlClass(url) ==
    IF \E k \in ArtKeywords : contains(lower(netloc(url)), k) THEN 4
    ELSE IF endswith(lower(netloc(url)), <<".", "k", "r">>) THEN 3
    ELSE IF startswith(url, HttpsPrefix) THEN 2
    ELSE IF \E k \in NewsKeywords : contains(lower(netloc(url)), k) THEN 1
    ELSE 0

\* the URLs fetch_artwork_urls was given, and those it kept, in its order
GivenUrls == result_urls(web_search[1].search_results[1].results)

KeptUrls == prioritize_artwork_urls(GivenUrls, MaxFetchUrls)

\* C22: the URLs fetch_artwork_urls keeps are in the order of their
\* classes, museum, country code, https, news or blog, other, and no URL it
\* drops is of a higher class than one it keeps.
C22_HigherClassFirst ==
    (ContentCallEnded /\ FetchAttempted) =>
        /\ \A i, j \in 1..Len(KeptUrls) :
               i < j => UrlClass(KeptUrls[i]) >= UrlClass(KeptUrls[j])
        /\ \A d \in 1..Len(GivenUrls), k \in 1..Len(KeptUrls) :
               (\A i \in 1..Len(KeptUrls) : KeptUrls[i] /= GivenUrls[d]) =>
                   UrlClass(GivenUrls[d]) <= UrlClass(KeptUrls[k])

\* C23: while fetch_urls gathers, at most MaxConcurrent of its fetches are
\* under way at once, whoever called it and however many URLs it was given.
C23_AtMostMaxConcurrentInFlight ==
    Cardinality(fanout.in_flight) <= MaxConcurrent

\* C24: fetch_urls returns one result per valid URL, no URL twice; the
\* result at a URL's place carries that URL and is what the server
\* answered for that URL, whatever order the tasks ended in and whatever
\* the other fetches met.
C24_OneResultPerUrlInPlace ==
    fanout.state = "returned" =>
        /\ Len(fanout.results) = Len(fanout.valid_urls)
        /\ \A i, j \in 1..Len(fanout.results) :
               fanout.results[i].url = fanout.results[j].url => i = j
        /\ \A i \in 1..Len(fanout.results) :
               /\ fanout.results[i].url = fanout.valid_urls[i]
               /\ fanout.results[i] =
                      fetch_txt_result(fanout.valid_urls[i], fanout.server[fanout.valid_urls[i]][1])

\* a fan-out whose last task ended first, with a failed entry beside a
\* successful one
C24_EndedOutOfOrderWithOneFailure ==
    /\ fanout.state = "returned"
    /\ Len(fanout.results) >= 3
    /\ fanout.completed[1] = Len(fanout.valid_urls)
    /\ \E i, j \in 1..Len(fanout.results) :
           ~fanout.results[i].success /\ fanout.results[j].success

\* an enriched description that is there: not None and not empty
Present(d) == d /= None /\ d /= Some(<<>>)

\* C25: the description in the script prompt is the content-enriched one
\* when present, else the web-enriched one when present, else the record's
\* own description.
C25_BestDescriptionInPrompt ==
    (ScriptCallEnded /\ prompt /= None) =>
        prompt[1] = IF Present(content_fetch[1].content_enriched_description)
                    THEN content_fetch[1].content_enriched_description[1]
                    ELSE IF Present(web_search[1].enriched_description)
                    THEN web_search[1].enriched_description[1]
                    ELSE basic_info[1].description

\* a prompt built with three different descriptions at hand
C25_ThreeDescriptionsAtHand ==
    /\ ScriptCallEnded
    /\ prompt = content_fetch[1].content_enriched_description
    /\ Present(content_fetch[1].content_enriched_description)
    /\ Present(web_search[1].enriched_description)
    /\ basic_info[1].description = MonaLisa

(***************************************************************************)
(* C26.  The places of a nearby-museum search.                             *)
(***************************************************************************)
WithinRadius(places, radius) ==
    \A i \in 1..Len(places) : places[i].distance_m <= radius * 100

InDistanceOrder(places) ==
    \A i \in 1..Len(places), j \in 1..Len(places) :
        i < j => places[i].distance_m <= places[j].distance_m

RankedByPosition(places) == \A i \in 1..Len(places) : places[i].rank = i

ListOfNearbyPlaces(places, radius, max_results) ==
    /\ WithinRadius(places, radius)
    /\ InDistanceOrder(places)
    /\ Len(places) <= max_results
    /\ RankedByPosition(places)

\* a search the endpoint can answer with a list: valid data, places from the
\* MCP server, every one of them with an address
SearchWithPlaces ==
    /\ nearby.state = "responded"
    /\ nearby.entry = "post"
    /\ request_is_valid(nearby.request)
    /\ nearby.result.kind = "places"
    /\ \A i \in 1..Len(nearby.result.places) : nearby.result.places[i].address /= <<>>

\* C26: a nearby-museum search is answered with the list of places: all of
\* them within the requested radius, in non-decreasing order of distance, at
\* most max_results (4) of them, each with the rank of its 1-based position.
C26_SearchAnsweredWithRankedPlaces ==
    SearchWithPlaces =>
        /\ nearby.response.status = 200
        /\ ListOfNearbyPlaces(nearby.response.places,
                              validated_radius(nearby.request), MaxResults)

\* process_mcp_response itself, given its four arguments, returns such a list
ProcessMcpResponseRanksPlaces ==
    (nearby.state = "responded" /\ nearby.entry = "process_mcp_response"
        /\ nearby.response.error = "None") =>
        ListOfNearbyPlaces(nearby.response.places, nearby.request.radius[1], MaxResults)

\* and it is given a list that is out of order, with places to leave out
ProcessMcpResponseCutToFour ==
    /\ nearby.state = "responded"
    /\ nearby.entry = "process_mcp_response"
    /\ Len(nearby.result.places) = 8
    /\ Len(nearby.response.places) = MaxResults
    /\ nearby.response.places[2].name = <<"C">>

(***************************************************************************)
(* C27.  The orchestrator's counters.                                      *)
(***************************************************************************)
OutcomesCounted == stats.successful_extractions + stats.failed_extractions

\* the calls of extract_and_enrich that have neither returned nor raised
UnfinishedCalls ==
    IF entry = Pipeline /\ pc \in {"extract", "web", "content", "script", "waiting"}
    THEN 1 ELSE 0

\* a step that ends a call of extract_and_enrich
PipelineCallEnds ==
    /\ entry = Pipeline
    /\ pc \in {"extract", "web", "content", "script"}
    /\ pc' \in {"returned", "raised"}

\* C27: total_extractions is successful_extractions plus failed_extractions
\* plus the number of unfinished calls, so the sum itself once every call has
\* ended; the step that ends a call adds one to exactly one of the two
\* outcome counters, and no other step changes them.
C27_TotalIsOutcomesPlusUnfinished ==
    /\ [](stats.total_extractions = OutcomesCounted + UnfinishedCalls)
    /\ [][IF PipelineCallEnds
          THEN \/ /\ stats'.successful_extractions = stats.successful_extractions + 1
                  /\ stats'.failed_extractions = stats.failed_extractions
               \/ /\ stats'.failed_extractions = stats.failed_extractions + 1
                  /\ stats'.successful_extractions = stats.successful_extractions
          ELSE /\ stats'.successful_extractions = stats.successful_extractions
               /\ stats'.failed_extractions = stats.failed_extractions]_vars

\* one call has failed and the next one is under way
C27_OneCountedOneUnfinished ==
    /\ entry = Pipeline
    /\ pc = "web"
    /\ stats.total_extractions = 2
    /\ stats.failed_extractions = 1

(***************************************************************************)
(* C28.  The classifier's counters.                                        *)
(***************************************************************************)
\* a step in which analyze_text is called and returns
AnalyzeTextCall == analysis'.returned

\* C28: in every state rule_based_only + ai_assisted <= total_analyzed and
\* ai_success <= ai_assisted <= ai_success + ai_fallback; every call of
\* analyze_text adds one to total_analyzed and adds one to at most one of
\* rule_based_only and ai_assisted.
C28_CountersStayOrdered ==
    /\ [](/\ analyzer.stats.rule_based_only + analyzer.stats.ai_assisted
                <= analyzer.stats.total_analyzed
          /\ analyzer.stats.ai_success <= analyzer.stats.ai_assisted
          /\ analyzer.stats.ai_assisted
                <= analyzer.stats.ai_success + analyzer.stats.ai_fallback)
    /\ [][AnalyzeTextCall =>
            /\ analyzer'.stats.total_analyzed = analyzer.stats.total_analyzed + 1
            /\ \/ /\ analyzer'.stats.rule_based_only = analyzer.stats.rule_based_only
                  /\ analyzer'.stats.ai_assisted \in
                        {analyzer.stats.ai_assisted, analyzer.stats.ai_assisted + 1}
               \/ /\ analyzer'.stats.rule_based_only = analyzer.stats.rule_based_only + 1
                  /\ analyzer'.stats.ai_assisted = analyzer.stats.ai_assisted]_vars

\* two calls, one settled by the rules and one by the model
C28_OneRuleBasedOneAiAssisted ==
    /\ analysis.returned
    /\ analyzer.stats.total_analyzed = 2
    /\ analyzer.stats.rule_based_only = 1
    /\ analyzer.stats.ai_assisted = 1
    /\ analyzer.stats.ai_success = 1

(***************************************************************************)
(* C29.  The valid-description path of enrich_with_web_search.             *)
(***************************************************************************)
\* C29: when the record's description is valid, enrich_with_web_search
\* issues exactly one AI call and returns a result whose enriched
\* description is the record's own description if that call gave nothing,
\* and is never missing, empty or a placeholder.
C29_ValidPathCleansUpOnce ==
    (WebCallEnded /\ ValidDescription(basic_info[1].description)) =>
        /\ ai_calls = 1
        /\ pc = "returned"
        /\ web_search /= None
        /\ AiGaveNothing(ai) =>
              web_search[1].enriched_description = Some(basic_info[1].description)
        /\ web_search[1].enriched_description
              \notin {None, Some(<<>>), Some(DefaultDescription), Some(NotFoundDescription)}

\* the first half alone: one AI call, no search and no fetch
ValidPathIssuesOneAiCall ==
    (WebCallEnded /\ ValidDescription(basic_info[1].description)) =>
        ai_calls = 1 /\ search_calls = 0 /\ fetch_log = <<>>

(***************************************************************************)
(* C30.  The video-completion polling loop.                                *)
(***************************************************************************)
\* the status the last lookup reported, "unknown" when it reported none
ReportedStatus ==
    IF polling.status_info = None \/ polling.status_info[1].status = None THEN "unknown"
    ELSE polling.status_info[1].status[1]

\* the last lookup failed: no data, or data that is empty or no object
LookupFailed ==
    \/ polling.status_info = None
    \/ polling.status_info[1].kind \in {"empty_data", "data_not_dict"}

====
